---- MODULE Spec2Model ----
(***************************************************************************)
(* Model of the Vertex job scheduler (runtime/multithreading/jobs.rs), of  *)
(* the worker pool that drives it (runtime/multithreading/workers.rs), of  *)
(* the VM that runs bytecode on it, and of the builder of that bytecode.   *)
(*                                                                         *)
(* Every scheduler operation runs inside the Arc<Mutex<JobScheduler>> of   *)
(* AsyncJobScheduler, so each operation is one atomic action.              *)
(*                                                                         *)
(* Spec    : the scheduler driven by build_workers - each worker takes a   *)
(*           handle with queue.next(), runs its closure (which may submit  *)
(*           jobs) and reports it once with finish_job or hibernate -      *)
(*           next to outside threads that submit jobs and wait for them.   *)
(* SpecApi : one thread calling the methods of a plain JobScheduler in any *)
(*           order on any handle, as the unit tests of jobs.rs do.         *)
(* SpecTerm: the pool of Spec next to a thread that calls                  *)
(*           terminate_workers; weak fairness for a worker whose recv()    *)
(*           can return with the disconnect.                               *)
(* SpecVM  : VirtualMachine::execute (runtime/virtual_machine.rs) called   *)
(*           from one thread on a fixed bytecode, its jobs run by the      *)
(*           pool; SpecVM1 is the same with a pool of one worker.          *)
(* SpecIR  : the IR builder (compiler/ast_to_ir.rs) and the assembler      *)
(*           (runtime/bytecode.rs) applied to one function body.           *)
(***************************************************************************)
EXTENDS Integers, Sequences, FiniteSets, TLC

\* ------------------------------------------------------------------ bounds
MaxJobs     == 3    \* job ids issued in one run: 1..MaxJobs
MaxDeps     == 2    \* longest dependency vector handed to new_job
NumWorkers  == 2    \* threads started by build_workers
NumWaiters  == 2    \* external threads that call wait_for_job
MaxApiCalls == 5    \* direct scheduler calls made by the test-style caller
MaxVmJobs   == 10   \* job ids the invocations of VirtualMachine::execute may use
MaxRuns     == 2    \* invocations of VirtualMachine::execute on one scheduler
MaxInput    == 2    \* the Int arguments passed to execute: 1..MaxInput
MaxAssignments == 2 \* assignments in the body of the compiled function
MaxArgs     == 2    \* arguments of a function call in an expression
MaxDepth    == 3    \* nesting of modules and functions in the compiled source
MaxElements == 3    \* modules, functions and structs in the compiled source
MaxFunctions == 2   \* functions among them
MaxStack    == 8    \* entries on the stack of the stack VM
MaxBytes    == 32   \* length of a buffer handed to Bytecode::from_bytes

\* JobScheduler::new takes its uid from this counter: the first scheduler of
\* a process gets SCHEDULER_UID, the one built after it the next value
SCHEDULER_UID == 0

JobIds  == 1..MaxJobs
\* every job id a run of any of the specifications can issue
AllJobIds == 1..(IF MaxVmJobs > MaxJobs THEN MaxVmJobs ELSE MaxJobs)
Workers == 1..NumWorkers
Waiters == 1..NumWaiters

VARIABLES
    min_job_id,          \* JobScheduler.min_job_id  (finished watermark)
    cur_job_id,          \* JobScheduler.cur_job_id  (next id to issue)
    buffer,              \* JobScheduler.buffer      (finished ids above the watermark)
    sleeping_jobs,       \* JobScheduler.sleeping_jobs    : Seq of SleepingJob
    hibernating_jobs,    \* JobScheduler.hibernating_jobs : Seq of HibernatingJob
    push_notifications,  \* JobScheduler.push_notifications : job id -> waiter owning the Receiver (0 = no entry)
    queue,               \* contents of the mpsc channel behind pending_jobs / job_queue
    chan,                \* per waiter: state of its one-shot notification channel
    pc,                  \* per worker: "idle" (in queue.next()) or "running" (inside the job closure)
    handle,              \* per worker: the handle returned by queue.next()
    children,            \* per worker: handles the running closure will return
    wstate,              \* per waiter: "none", "blocked", "returned", "panicked"
    wjob,                \* per waiter: the handle passed to wait_for_job
    poisoned,            \* a thread panicked while holding the scheduler's Mutex
    panicked,            \* the direct caller hit a panic!() and unwound
    api_calls,           \* number of direct scheduler calls made so far
    nodes,               \* the VirtualNodes allocated so far: [handle, data]
    closures,            \* job id -> the closure new_job was given by the VM
    operations,          \* per worker: the `operations` Vec of the expansion it runs
    exec,                \* the thread inside VirtualMachine::execute
    results,             \* history: function, inputs and value of every execute that returned
    ast,                 \* FunctionNode.assignments of the function being compiled
    ir,                  \* "none", or the Result of the IR builder: "Ok" / "Err"
    bc,                  \* InternalFunction.operations assembled from the statements
    stack,               \* compile_context: the load_module / load_function calls in progress
    context,             \* the IRContext being filled: structs and functions
    stage,               \* from_source: "loading", "Ok" / "Err" of compile_context,
                         \* then "assembled" or "panic" of bytecode_from_ir
    bytecode,            \* the VertexBytecode returned by from_source
    elements,            \* history: export flag, depth and accessability of every
                         \* module, function and struct loaded, and of its parent
    registry,            \* FunctionRegistry.functions
    meta,                \* what the last FuncMeta::new was given and what it returned
    registered,          \* history: the FuncMeta last passed to register, the
                         \* functions before the call and the result
    instructions,        \* Bytecode.instructions of the stack VM
    svm,                 \* VM::exec: ip, stack, and the result once it has returned
    svm_prev,            \* history: whether the loop of VM::exec has run, and
                         \* ip and stack at the head of its last iteration
    bytes,               \* the buffer handed to Bytecode::from_bytes
    loaded,              \* what Bytecode::from_bytes returned for it
    damage,              \* history: what was done to the serialized bytecode
                         \* to get the buffer
    sender,              \* PendingJobs.sender is Some: the job channel has its Sender
    last_call,           \* the direct call made last: method, handle, and whether
                         \* a handle of another scheduler was passed
    \* ---- history variables (observations, not program state)
    deps_of,             \* job id -> dependency vector it was submitted with
    hib_deps,            \* job id -> dependency vector it hibernated on
    finished,            \* job id -> number of finish_job invocations for it
    notified,            \* job id -> number of notifications sent for it
    slept,               \* job ids that new_job recorded as sleeping
    parked,              \* job ids that hibernate recorded as hibernating
    pushed,              \* handles in the order they were sent to the job channel
    popped               \* handles in the order queue.next() returned them

schedVars  == <<min_job_id, cur_job_id, buffer, sleeping_jobs, hibernating_jobs,
                push_notifications, queue, chan, finished, notified,
                slept, parked, pushed>>
workerVars == <<pc, handle, children, poisoned>>
waiterVars == <<wstate, wjob>>
apiVars    == <<panicked, api_calls, last_call>>
histVars   == <<deps_of, hib_deps, popped>>
termVars   == <<sender>>
\* state that the actions of the pool and of the direct caller leave alone
vmVars     == <<nodes, closures, operations, exec, results>>
irVars     == <<ast, ir, bc>>
ctxVars    == <<stack, context, stage, bytecode, elements>>
regVars    == <<registry, meta, registered>>
svmVars    == <<instructions, svm, svm_prev>>
rdVars     == <<bytes, loaded, damage>>
restVars   == <<ctxVars, regVars, svmVars, rdVars>>
otherVars  == <<termVars, vmVars, irVars, restVars>>
vars       == <<schedVars, workerVars, waiterVars, apiVars, histVars, otherVars>>

\* ------------------------------------------------------------ Vec helpers
\* the elements of a Vec
Range(v) == {v[i] : i \in 1..Len(v)}

\* Vec::contains
Contains(v, x) == \E i \in 1..Len(v) : v[i] = x

\* Iterator::position(|id| *id == x): 1-based index of the first match, 0 for None
Position(v, x) ==
    IF Contains(v, x) THEN CHOOSE i \in 1..Len(v) : v[i] = x /\ \A k \in 1..(i-1) : v[k] # x
    ELSE 0

\* Vec::remove(index)
Remove(v, i) == SubSeq(v, 1, i-1) \o SubSeq(v, i+1, Len(v))

\* Sender::send on the job channel
ChanSend(q, h) == Append(q, h)

\* Receiver::recv on the job channel: the handle returned, and what is left
\* (faulty variant: takes the newest handle)
ChanRecvLast(q) == q[Len(q)]
ChanRecv(q) == Head(q)
ChanRest(q) == Tail(q)

\* ----------------------------------------------- the scheduler as a record
\* The fields finish_job reads and writes, gathered so that the recursive
\* call of finish_job can be followed.
State ==
    [min_job_id |-> min_job_id, cur_job_id |-> cur_job_id, buffer |-> buffer,
     sleeping_jobs |-> sleeping_jobs, hibernating_jobs |-> hibernating_jobs,
     push_notifications |-> push_notifications, queue |-> queue, chan |-> chan,
     finished |-> finished, notified |-> notified,
     slept |-> slept, parked |-> parked, pushed |-> pushed,
     sender |-> sender, panic |-> FALSE]

Commit(st) ==
    /\ min_job_id' = st.min_job_id
    /\ cur_job_id' = st.cur_job_id
    /\ buffer' = st.buffer
    /\ sleeping_jobs' = st.sleeping_jobs
    /\ hibernating_jobs' = st.hibernating_jobs
    /\ push_notifications' = st.push_notifications
    /\ queue' = st.queue
    /\ chan' = st.chan
    /\ finished' = st.finished
    /\ notified' = st.notified
    /\ slept' = st.slept
    /\ parked' = st.parked
    /\ pushed' = st.pushed

\* PendingJobs::send: sender.as_ref().unwrap() panics once kill() has stored
\* None. st.panic records that the operation unwound; the caller holds the
\* scheduler's Mutex, which is poisoned, so no thread reads the fields again.
send(st, h) ==
    IF st.sender
    THEN [st EXCEPT !.queue = ChanSend(@, h), !.pushed = Append(@, h)]
    ELSE [st EXCEPT !.panic = TRUE]

\* JobScheduler::is_done
\* (faulty variant: the watermark id itself is not counted)
is_done_off(st, id) == id < st.min_job_id \/ Contains(st.buffer, id)
is_done(st, id) == id <= st.min_job_id \/ Contains(st.buffer, id)

\* the two filters of new_job and hibernate: keep the ids not yet finished
\* (faulty variant: takes the id after the watermark for finished)
filter_deps_past_watermark(st, deps) ==
    SelectSeq(deps, LAMBDA id : id > st.min_job_id + 1 /\ ~Contains(st.buffer, id))
filter_deps(st, deps) ==
    SelectSeq(deps, LAMBDA id : id > st.min_job_id /\ ~Contains(st.buffer, id))

\* JobScheduler::new_job (the handle returned is st.cur_job_id)
\* (faulty variant: keeps the dependencies that are already finished)
new_job_unfiltered(st, dependencies) ==
    LET job_id == st.cur_job_id
        s1     == [st EXCEPT !.cur_job_id = @ + 1]
    IN  IF dependencies = <<>>
        THEN [s1 EXCEPT !.queue = ChanSend(@, job_id), !.pushed = Append(@, job_id)]
        ELSE [s1 EXCEPT !.sleeping_jobs =
                  Append(@, [handle |-> job_id, dependencies |-> dependencies]),
                        !.slept = @ \cup {job_id}]
new_job(st, dependencies) ==
    LET deps   == filter_deps(st, dependencies)
        job_id == st.cur_job_id
        s1     == [st EXCEPT !.cur_job_id = @ + 1]
    IN  IF deps = <<>>
        THEN send(s1, job_id)
        ELSE [s1 EXCEPT !.sleeping_jobs =
                  Append(@, [handle |-> job_id, dependencies |-> deps]),
                        !.slept = @ \cup {job_id}]

\* for job in &mut self.sleeping_jobs / &mut self.hibernating_jobs:
\* remove the first occurrence of job_id from each entry's dependencies;
\* hit records that the entry took the Some(index) arm
strike(jobs, job_id) ==
    [i \in 1..Len(jobs) |->
        LET index == Position(jobs[i].dependencies, job_id)
        IN  IF index # 0
            THEN [handle |-> jobs[i].handle,
                  dependencies |-> Remove(jobs[i].dependencies, index), hit |-> TRUE]
            ELSE [handle |-> jobs[i].handle,
                  dependencies |-> jobs[i].dependencies, hit |-> FALSE]]

\* the handles of the entries whose dependencies became empty in the Some arm
\* (faulty variant: every entry that took the Some arm)
emptied_or_hit(struck) ==
    LET sel == SelectSeq(struck, LAMBDA j : j.hit)
    IN  [i \in 1..Len(sel) |-> sel[i].handle]
emptied(struck) ==
    LET sel == SelectSeq(struck, LAMBDA j : j.hit /\ j.dependencies = <<>>)
    IN  [i \in 1..Len(sel) |-> sel[i].handle]

\* Vec::retain(|j| !j.dependencies.is_empty())
\* (faulty variant: keeps the emptied entries)
retain_all(struck) ==
    [i \in 1..Len(struck) |->
        [handle |-> struck[i].handle, dependencies |-> struck[i].dependencies]]
retain(struck) ==
    LET sel == SelectSeq(struck, LAMBDA j : j.dependencies # <<>>)
    IN  [i \in 1..Len(sel) |-> [handle |-> sel[i].handle, dependencies |-> sel[i].dependencies]]

RECURSIVE send_all(_, _)
send_all(st, hs) ==
    IF hs = <<>> THEN st ELSE send_all(send(st, Head(hs)), Tail(hs))

\* self.buffer.iter().position(|id| *id <= next_min_id)
\* (faulty variant: also matches the id after next_min_id)
position_le_skip(v, n) ==
    IF \E i \in 1..Len(v) : v[i] <= n + 1
    THEN CHOOSE i \in 1..Len(v) : v[i] <= n + 1 /\ \A k \in 1..(i-1) : v[k] > n + 1
    ELSE 0
position_le(v, n) ==
    IF \E i \in 1..Len(v) : v[i] <= n
    THEN CHOOSE i \in 1..Len(v) : v[i] <= n /\ \A k \in 1..(i-1) : v[k] > n
    ELSE 0

\* the "Cleanup finished job buffer" loop of finish_job
RECURSIVE cleanup(_)
cleanup(st) ==
    LET next_min_id == st.min_job_id + 1
        index       == position_le(st.buffer, next_min_id)
    IN  IF index = 0 THEN st
        ELSE cleanup([st EXCEPT !.buffer = Remove(@, index), !.min_job_id = next_min_id])

\* "Trigger push notifications for finished job, if needed."
\* (faulty variant: get instead of remove, the Sender stays in the map)
notify_keep(st, job_id) ==
    LET w == st.push_notifications[job_id]
    IN  IF w = 0 THEN st
        ELSE [st EXCEPT !.chan[w] = "signalled",
                        !.notified[job_id] = @ + 1]
notify(st, job_id) ==
    LET w == st.push_notifications[job_id]
    IN  IF w = 0 THEN st
        ELSE [st EXCEPT !.push_notifications[job_id] = 0,
                        !.chan[w] = "signalled",
                        !.notified[job_id] = @ + 1]

\* JobScheduler::finish_job, after its two panic checks
RECURSIVE finish_job(_, _)
RECURSIVE finish_each(_, _)
finish_each(st, hs) ==
    IF hs = <<>> THEN st ELSE finish_each(finish_job(st, Head(hs)), Tail(hs))

finish_job(st, job_id) ==
    LET s0            == [st EXCEPT !.finished[job_id] = @ + 1]
        struck_s      == strike(s0.sleeping_jobs, job_id)
        s1            == [send_all(s0, emptied(struck_s))
                              EXCEPT !.sleeping_jobs = retain(struck_s)]
        struck_h      == strike(s1.hibernating_jobs, job_id)
        finished_jobs == emptied(struck_h)
        s2            == [s1 EXCEPT !.hibernating_jobs = retain(struck_h)]
        s3            == cleanup([s2 EXCEPT !.buffer = Append(@, job_id)])
        s4            == finish_each(s3, finished_jobs)
    IN  notify(s4, job_id)

\* the panic checks that open finish_job and hibernate
is_sleeping(st, job_id) == \E i \in 1..Len(st.sleeping_jobs) : st.sleeping_jobs[i].handle = job_id
is_hibernating(st, job_id) ==
    \E i \in 1..Len(st.hibernating_jobs) : st.hibernating_jobs[i].handle = job_id
\* (faulty variant: finish_job does not look at the sleeping list)
finish_job_accepts_sleeping(st, job_id) == FALSE
finish_job_panics(st, job_id) == is_sleeping(st, job_id)
hibernate_panics(st, job_id)  == is_hibernating(st, job_id) \/ is_sleeping(st, job_id)

\* JobScheduler::hibernate, after its panic checks
\* (faulty variant: does not wait for the children)
hibernate_finishes_at_once(st, job_id, dependencies) == finish_job(st, job_id)
hibernate(st, job_id, dependencies) ==
    LET deps == filter_deps(st, dependencies)
    IN  IF deps = <<>>
        THEN finish_job(st, job_id)
        ELSE [st EXCEPT !.hibernating_jobs =
                  Append(@, [handle |-> job_id, dependencies |-> deps]),
                        !.parked = @ \cup {job_id}]

\* JobScheduler::build_job_notify_channel for the waiter thread t:
\* HashMap::insert replaces, and thereby drops, a Sender already stored under
\* the same job id
build_job_notify_channel(st, job_id, t) ==
    IF is_done(st, job_id) THEN st
    ELSE LET old == st.push_notifications[job_id]
             c1  == IF old # 0 THEN [st.chan EXCEPT ![old] = "dropped"] ELSE st.chan
         IN  [st EXCEPT !.push_notifications[job_id] = t,
                        !.chan = [c1 EXCEPT ![t] = "open"]]

\* ------------------------------------------------------------------- Init
\* JobScheduler::new, build_workers: every worker starts in queue.next()
Init ==
    /\ min_job_id = 0
    /\ cur_job_id = 1
    /\ buffer = <<>>
    /\ sleeping_jobs = <<>>
    /\ hibernating_jobs = <<>>
    /\ push_notifications = [j \in AllJobIds |-> 0]
    /\ queue = <<>>
    /\ chan = [t \in Waiters |-> "none"]
    /\ pc = [w \in Workers |-> "idle"]
    /\ handle = [w \in Workers |-> 0]
    /\ children = [w \in Workers |-> <<>>]
    /\ poisoned = FALSE
    /\ wstate = [t \in Waiters |-> "none"]
    /\ wjob = [t \in Waiters |-> 0]
    /\ panicked = FALSE
    /\ api_calls = 0
    /\ sender = TRUE
    /\ nodes = <<>>
    /\ closures = <<>>
    /\ operations = [w \in Workers |-> <<>>]
    /\ exec = [pc |-> "idle", func |-> 0, inputs |-> <<>>, node |-> 0]
    /\ results = <<>>
    /\ ast = <<>>
    /\ ir = "none"
    /\ bc = <<>>
    /\ stack = <<>>
    /\ context = [structs |-> <<>>, functions |-> <<>>]
    /\ stage = "loading"
    /\ bytecode = [external_functions |-> <<>>, internal_functions |-> <<>>,
                   constants |-> <<>>, panic |-> FALSE]
    /\ elements = <<>>
    /\ instructions = <<>>
    /\ svm = [ip |-> 0, stack |-> <<>>, result |-> "none",
              value |-> [kind |-> "none", value |-> 0]]
    /\ svm_prev = [ran |-> FALSE, ip |-> 0, stack |-> <<>>]
    /\ bytes = <<>>
    /\ loaded = [result |-> "none", constants |-> <<>>, instructions |-> <<>>]
    /\ damage = "unset"
    /\ registry = <<>>
    /\ meta = [result |-> "none", name |-> "", input_args |-> <<>>, output |-> 0]
    /\ registered = [result |-> "none", function |-> 0, before |-> <<>>]
    /\ last_call = [op |-> "none", foreign |-> FALSE, job_id |-> 0]
    /\ deps_of = [j \in AllJobIds |-> <<>>]
    /\ hib_deps = [j \in AllJobIds |-> <<>>]
    /\ finished = [j \in AllJobIds |-> 0]
    /\ notified = [j \in AllJobIds |-> 0]
    /\ slept = {}
    /\ parked = {}
    /\ pushed = <<>>
    /\ popped = <<>>

\* the handles issued so far, and the dependency vectors a caller can build
\* from them (a Vec<JobHandle>: order and repetition are the caller's)
Issued  == 1..(cur_job_id - 1)
DepVecs == UNION {[1..n -> Issued] : n \in 0..MaxDeps}

\* ------------------------------------ actions: the scheduler under its pool
\* A thread outside the pool (VirtualMachine::execute, a test) calls
\* AsyncJobScheduler::new_job.
Submit(deps) ==
    /\ ~poisoned
    /\ cur_job_id <= MaxJobs
    /\ IF new_job(State, deps).panic
       THEN poisoned' = TRUE /\ UNCHANGED <<schedVars, deps_of>>
       ELSE /\ Commit(new_job(State, deps))
            /\ deps_of' = [deps_of EXCEPT ![cur_job_id] = deps]
            /\ UNCHANGED poisoned
    /\ UNCHANGED <<pc, handle, children, waiterVars, apiVars, hib_deps, popped>>
    /\ UNCHANGED otherVars

\* workers.rs: let handle = queue.next();
QueueNext(w) ==
    /\ pc[w] = "idle"
    /\ queue # <<>>
    /\ handle' = [handle EXCEPT ![w] = ChanRecv(queue)]
    /\ queue' = ChanRest(queue)
    /\ popped' = Append(popped, ChanRecv(queue))
    /\ pc' = [pc EXCEPT ![w] = "running"]
    /\ children' = [children EXCEPT ![w] = <<>>]
    /\ UNCHANGED <<min_job_id, cur_job_id, buffer, sleeping_jobs, hibernating_jobs,
                   push_notifications, chan, finished, notified, slept, parked, pushed,
                   poisoned, waiterVars, apiVars, deps_of, hib_deps>>
    /\ UNCHANGED otherVars

\* workers.rs: handle.get_job()() - the closure submits a job of its own and
\* decides whether to name it in the Vec<JobHandle> it returns
BodySpawn(w, deps, keep) ==
    /\ pc[w] = "running"
    /\ ~poisoned
    /\ cur_job_id <= MaxJobs
    /\ IF new_job(State, deps).panic
       THEN /\ pc' = [pc EXCEPT ![w] = "panicked"]
            /\ poisoned' = TRUE
            /\ UNCHANGED <<schedVars, deps_of, children>>
       ELSE /\ Commit(new_job(State, deps))
            /\ deps_of' = [deps_of EXCEPT ![cur_job_id] = deps]
            /\ children' = [children EXCEPT ![w] = IF keep THEN Append(@, cur_job_id) ELSE @]
            /\ UNCHANGED <<pc, poisoned>>
    /\ UNCHANGED <<handle, waiterVars, apiVars, hib_deps, popped>>
    /\ UNCHANGED otherVars

\* workers.rs: if children.is_empty() { sch.finish_job(handle) }
\* The handle is moved into the call. A panic inside the call unwinds the
\* worker thread and poisons the Mutex.
WorkerFinish(w) ==
    /\ pc[w] = "running"
    /\ ~poisoned
    /\ children[w] = <<>>
    /\ IF finish_job_panics(State, handle[w]) \/ finish_job(State, handle[w]).panic
       THEN /\ pc' = [pc EXCEPT ![w] = "panicked"]
            /\ poisoned' = TRUE
            /\ UNCHANGED schedVars
       ELSE /\ Commit(finish_job(State, handle[w]))
            /\ pc' = [pc EXCEPT ![w] = "idle"]
            /\ UNCHANGED poisoned
    /\ handle' = [handle EXCEPT ![w] = 0]
    /\ UNCHANGED <<children, waiterVars, apiVars, histVars>>
    /\ UNCHANGED otherVars

\* workers.rs: else { sch.hibernate(handle, children) }
WorkerHibernate(w) ==
    /\ pc[w] = "running"
    /\ ~poisoned
    /\ children[w] # <<>>
    /\ IF hibernate_panics(State, handle[w])
          \/ hibernate(State, handle[w], children[w]).panic
       THEN /\ pc' = [pc EXCEPT ![w] = "panicked"]
            /\ poisoned' = TRUE
            /\ UNCHANGED <<schedVars, hib_deps>>
       ELSE /\ Commit(hibernate(State, handle[w], children[w]))
            /\ hib_deps' = [hib_deps EXCEPT ![handle[w]] = children[w]]
            /\ pc' = [pc EXCEPT ![w] = "idle"]
            /\ UNCHANGED poisoned
    /\ handle' = [handle EXCEPT ![w] = 0]
    /\ children' = [children EXCEPT ![w] = <<>>]
    /\ UNCHANGED <<waiterVars, apiVars, deps_of, popped>>
    /\ UNCHANGED otherVars

\* AsyncJobScheduler::wait_for_job, up to receiver.recv()
WaitFor(t, h) ==
    /\ wstate[t] = "none"
    /\ ~poisoned
    /\ h \in Issued
    /\ Commit(build_job_notify_channel(State, h, t))
    /\ wjob' = [wjob EXCEPT ![t] = h]
    /\ wstate' = [wstate EXCEPT ![t] = IF is_done(State, h) THEN "returned" ELSE "blocked"]
    /\ UNCHANGED <<workerVars, apiVars, histVars>>
    /\ UNCHANGED otherVars

\* AsyncJobScheduler::wait_for_job: receiver.recv().unwrap() - Ok(()) once the
\* message was sent, Err (and a panic) once the Sender was dropped without one
WaitWake(t) ==
    /\ wstate[t] = "blocked"
    /\ chan[t] \in {"signalled", "dropped"}
    /\ wstate' = [wstate EXCEPT ![t] = IF chan[t] = "signalled" THEN "returned" ELSE "panicked"]
    /\ UNCHANGED <<schedVars, workerVars, wjob, apiVars, histVars>>
    /\ UNCHANGED otherVars

Next ==
    \/ \E deps \in DepVecs : Submit(deps)
    \/ \E w \in Workers : QueueNext(w)
    \/ \E w \in Workers, deps \in DepVecs, keep \in BOOLEAN : BodySpawn(w, deps, keep)
    \/ \E w \in Workers : WorkerFinish(w)
    \/ \E w \in Workers : WorkerHibernate(w)
    \/ \E t \in Waiters, h \in JobIds : WaitFor(t, h)
    \/ \E t \in Waiters : WaitWake(t)

Spec == Init /\ [][Next]_vars

\* ------------------------------------- actions: shutting the pool down
\* Receiver::recv on the job channel: Err once the buffer is empty and the
\* Sender is gone; handles sent before the Sender was dropped are still
\* returned
\* (faulty variant: the Receiver never learns that the Sender is gone)
recv_blocks_forever(q, alive) == FALSE
recv_disconnected(q, alive) == q = <<>> /\ ~alive

\* AsyncJobScheduler::terminate_workers -> PendingJobs::kill
TerminateWorkers ==
    /\ ~poisoned
    /\ sender
    /\ sender' = FALSE
    /\ UNCHANGED <<schedVars, workerVars, waiterVars, apiVars, histVars, vmVars, irVars, restVars>>

\* JobQueue::next: recv() returns Err and unwrap() panics, which ends the
\* worker thread. The panic unwinds with the Receiver's Mutex held, so a
\* worker waiting for that Mutex gets a PoisonError and ends the same way.
WorkerExit(w) ==
    /\ pc[w] = "idle"
    /\ recv_disconnected(queue, sender)
    /\ pc' = [pc EXCEPT ![w] = "exited"]
    /\ UNCHANGED <<schedVars, handle, children, poisoned, waiterVars, apiVars,
                   histVars, otherVars>>

\* a worker inside a closure whose next scheduler call finds the Mutex
\* poisoned: lock().unwrap() panics
WorkerPoisoned(w) ==
    /\ pc[w] = "running"
    /\ poisoned
    /\ pc' = [pc EXCEPT ![w] = "panicked"]
    /\ handle' = [handle EXCEPT ![w] = 0]
    /\ children' = [children EXCEPT ![w] = <<>>]
    /\ UNCHANGED <<schedVars, poisoned, waiterVars, apiVars, histVars, otherVars>>

NextTerm ==
    \/ \E deps \in DepVecs : Submit(deps)
    \/ \E w \in Workers : QueueNext(w)
    \/ \E w \in Workers, deps \in DepVecs, keep \in BOOLEAN : BodySpawn(w, deps, keep)
    \/ \E w \in Workers : WorkerFinish(w)
    \/ \E w \in Workers : WorkerHibernate(w)
    \/ TerminateWorkers
    \/ \E w \in Workers : WorkerExit(w)
    \/ \E w \in Workers : WorkerPoisoned(w)

\* the operating system runs every thread that can run: a worker whose
\* recv() can return does return
SpecTerm ==
    /\ Init
    /\ [][NextTerm]_vars
    /\ \A w \in Workers : WF_vars(WorkerExit(w))

\* ------------------- actions: the scheduler called directly (jobs.rs tests)
\* One thread owns a plain JobScheduler and calls its methods in any order,
\* as the unit tests of jobs.rs do; a panic!() ends that thread. A handle is
\* (scheduler_uid, job_id); the caller also holds handles of a second
\* scheduler, whose job ids are numbers of the same range.
Uids == {SCHEDULER_UID, SCHEDULER_UID + 1}
HandleIds(uid) == IF uid = SCHEDULER_UID THEN Issued ELSE JobIds
\* the uids that go with a dependency vector, one per handle
UidVecs(deps) == [1..Len(deps) -> Uids]

\* job.scheduler_uid != self.scheduler_uid
\* (faulty variant: the uid is not looked at)
other_scheduler_unchecked(uid) == FALSE
other_scheduler(uid) == uid # SCHEDULER_UID

\* dependencies.iter().any(|j| j.scheduler_uid != self.scheduler_uid)
any_other_scheduler(uids) == \E i \in 1..Len(uids) : other_scheduler(uids[i])

Call(op, uid, job_id) ==
    [op |-> op, foreign |-> uid # SCHEDULER_UID, job_id |-> job_id]

\* sch.new_job(deps, job): uids[i] is the scheduler_uid of deps[i]
ApiNewJob(deps, uids) ==
    /\ ~panicked
    /\ api_calls < MaxApiCalls
    /\ cur_job_id <= MaxJobs
    /\ IF any_other_scheduler(uids)
       THEN panicked' = TRUE /\ UNCHANGED <<schedVars, deps_of>>
       ELSE /\ Commit(new_job(State, deps))
            /\ deps_of' = [deps_of EXCEPT ![cur_job_id] = deps]
            /\ UNCHANGED panicked
    /\ api_calls' = api_calls + 1
    /\ last_call' = Call("new_job",
                         IF \E i \in 1..Len(uids) : uids[i] # SCHEDULER_UID
                         THEN SCHEDULER_UID + 1 ELSE SCHEDULER_UID, 0)
    /\ UNCHANGED <<workerVars, waiterVars, hib_deps, popped>>
    /\ UNCHANGED otherVars

\* queue.next() on a queue that holds a handle
ApiNext ==
    /\ ~panicked
    /\ api_calls < MaxApiCalls
    /\ queue # <<>>
    /\ queue' = ChanRest(queue)
    /\ popped' = Append(popped, ChanRecv(queue))
    /\ api_calls' = api_calls + 1
    /\ last_call' = Call("next", SCHEDULER_UID, 0)
    /\ UNCHANGED <<min_job_id, cur_job_id, buffer, sleeping_jobs, hibernating_jobs,
                   push_notifications, chan, finished, notified, slept, parked, pushed,
                   workerVars, waiterVars, panicked, deps_of, hib_deps>>
    /\ UNCHANGED otherVars

\* sch.finish_job(handle) on any handle the caller holds
ApiFinish(uid, h) ==
    /\ ~panicked
    /\ api_calls < MaxApiCalls
    /\ h \in HandleIds(uid)
    /\ IF other_scheduler(uid) \/ finish_job_panics(State, h)
       THEN panicked' = TRUE /\ UNCHANGED schedVars
       ELSE Commit(finish_job(State, h)) /\ UNCHANGED panicked
    /\ api_calls' = api_calls + 1
    /\ last_call' = Call("finish_job", uid, h)
    /\ UNCHANGED <<workerVars, waiterVars, histVars>>
    /\ UNCHANGED otherVars

\* sch.hibernate(handle, deps) on any handle the caller holds; the uids of
\* the dependencies are not looked at by hibernate
ApiHibernate(uid, h, deps) ==
    /\ ~panicked
    /\ api_calls < MaxApiCalls
    /\ h \in HandleIds(uid)
    /\ IF other_scheduler(uid) \/ hibernate_panics(State, h)
       THEN panicked' = TRUE /\ UNCHANGED <<schedVars, hib_deps>>
       ELSE /\ Commit(hibernate(State, h, deps))
            /\ hib_deps' = [hib_deps EXCEPT ![h] = deps]
            /\ UNCHANGED panicked
    /\ api_calls' = api_calls + 1
    /\ last_call' = Call("hibernate", uid, h)
    /\ UNCHANGED <<workerVars, waiterVars, deps_of, popped>>
    /\ UNCHANGED otherVars

\* sch.is_done(&handle): reads the scheduler, or panics on a foreign handle
ApiIsDone(uid, h) ==
    /\ ~panicked
    /\ api_calls < MaxApiCalls
    /\ h \in HandleIds(uid)
    /\ panicked' = other_scheduler(uid)
    /\ api_calls' = api_calls + 1
    /\ last_call' = Call("is_done", uid, h)
    /\ UNCHANGED <<schedVars, workerVars, waiterVars, histVars>>
    /\ UNCHANGED otherVars

NextApi ==
    \/ \E deps \in DepVecs : \E uids \in UidVecs(deps) : ApiNewJob(deps, uids)
    \/ ApiNext
    \/ \E uid \in Uids, h \in JobIds : ApiFinish(uid, h)
    \/ \E uid \in Uids, h \in JobIds, deps \in DepVecs : ApiHibernate(uid, h, deps)
    \/ \E uid \in Uids, h \in JobIds : ApiIsDone(uid, h)

SpecApi == Init /\ [][NextApi]_vars

\* ------------------------------------------- the VM: bytecode under test
\* OperationInput and FunctionCall; indices count from 0 as in the bytecode
Param(i)  == [kind |-> "Param", index |-> i]
Hidden(i) == [kind |-> "Hidden", index |-> i]
Operation(kind, index, inputs) ==
    [function_call |-> [kind |-> kind, index |-> index], inputs |-> inputs]

\* VertexBytecode.constants
get_constants == <<1, 2>>

\* VertexBytecode.internal_functions, with the number of inputs execute is
\* given for each:
\*   0  F(a, b)    = Add(Sub(a, b), a)
\*   1  G(a, b)    = F(a, b)
\*   2  Main(a)    = Sub(F(Add(a, 1), 1), Add(a, 1))
\*   3  Square(a)  = Add(x, x)  with x = Add(a, a)
\*   4  Const()    = 2
InternalFunctions ==
    << [params |-> 2, operations |->
            << Operation("External", 1, <<Param(0), Param(1)>>),
               Operation("External", 0, <<Hidden(0), Param(0)>>) >>],
       [params |-> 2, operations |->
            << Operation("Internal", 0, <<Param(0), Param(1)>>) >>],
       [params |-> 1, operations |->
            << Operation("Constant", 0, <<>>),
               Operation("External", 0, <<Param(0), Hidden(0)>>),
               Operation("Internal", 0, <<Hidden(1), Hidden(0)>>),
               Operation("External", 1, <<Hidden(2), Hidden(1)>>) >>],
       [params |-> 1, operations |->
            << Operation("External", 0, <<Param(0), Param(0)>>),
               Operation("External", 0, <<Hidden(0), Hidden(0)>>) >>],
       [params |-> 0, operations |->
            << Operation("Constant", 1, <<>>) >> ] >>

FuncIds == 0..(Len(InternalFunctions) - 1)
get_operations(f) == InternalFunctions[f + 1].operations
Values == 1..MaxInput
InputVecs(f) == [1..InternalFunctions[f + 1].params -> Values]

\* VertexBytecode.external_functions: 0 is Add, 1 is Sub, both pure
\* (faulty variant: a callback that reads the state of the process)
function_impure(i, function_in) == function_in[1] + cur_job_id
function(i, function_in) ==
    IF i = 0 THEN function_in[1] + function_in[2]
             ELSE function_in[1] - function_in[2]

\* ------------------------------------------- the VM: virtual nodes and jobs
\* Option<Arc<Data>>: <<>> is None, <<v>> is Some(v); a handle of 0 is None
None == <<>>
Some(v) == <<v>>

\* inputs.iter().filter_map(|node| node.lock().unwrap().handle().clone())
\* (faulty variant: the job is submitted without dependencies)
node_deps_none(ns, inputs) == <<>>
node_deps(ns, inputs) ==
    SelectSeq([k \in 1..Len(inputs) |-> ns[inputs[k]].handle], LAMBDA h : h # 0)

\* OperationInput::Param(i) => &inputs[*i]
\* (faulty variant: counts the parameters from the end)
param_node_reversed(inputs, i) == inputs[Len(inputs) - i]
param_node(inputs, i) == inputs[i + 1]

\* the node an operation input points to
input_node(c, ops, in) ==
    IF in.kind = "Param" THEN param_node(c.inputs, in.index) ELSE ops[in.index + 1]
\* indexing inputs or operations out of bounds
input_panics(c, ops, in) ==
    IF in.kind = "Param" THEN in.index >= Len(c.inputs) ELSE in.index >= Len(ops)

\* vec![new_job]: what the expansion closure returns
\* (faulty variant: the expansion returns no child)
expansion_returns_nothing(new_job_id) == <<>>
expansion_returns(new_job_id) == <<new_job_id>>

\* the thread in execute waits on the first notification channel
MainThread == 1

\* VirtualNode::external and VirtualNode::internal on the arena ns: a node
\* without value, a job whose closure owns the node and its inputs, the
\* handle stored in the node
NewNodeJob(ns, kind, func, inputs) ==
    /\ Commit(new_job(State, node_deps(ns, inputs)))
    /\ deps_of' = [deps_of EXCEPT ![cur_job_id] = node_deps(ns, inputs)]
    /\ nodes' = Append(ns, [handle |-> cur_job_id, data |-> None])
    /\ closures' = Append(closures, [kind |-> kind, node |-> Len(ns) + 1,
                                     func |-> func, inputs |-> inputs])

\* jobs that one invocation of an internal function creates: the expansion,
\* the tail copy, and those of its operations
RECURSIVE JobCount(_)
RECURSIVE OpsJobCount(_, _)
OpsJobCount(ops, n) ==
    IF n = 0 THEN 0
    ELSE OpsJobCount(ops, n - 1) +
         (CASE ops[n].function_call.kind = "Internal" -> JobCount(ops[n].function_call.index)
            [] ops[n].function_call.kind = "External" -> 1
            [] OTHER -> 0)
JobCount(f) == 2 + OpsJobCount(get_operations(f), Len(get_operations(f)))

\* VirtualMachine::execute up to wait_for_job: constant nodes for the inputs
\* and the root node of the function
VmExecute(f, xs) ==
    /\ exec.pc = "idle"
    /\ ~poisoned
    /\ Len(results) < MaxRuns
    /\ cur_job_id + JobCount(f) - 1 <= MaxVmJobs
    /\ LET consts == [k \in 1..Len(xs) |-> [handle |-> 0, data |-> Some(xs[k])]]
           inputs == [k \in 1..Len(xs) |-> Len(nodes) + k]
       IN  /\ NewNodeJob(nodes \o consts, "expand", f, inputs)
           /\ exec' = [pc |-> "started", func |-> f, inputs |-> xs,
                       node |-> Len(nodes) + Len(xs) + 1]
    /\ UNCHANGED <<workerVars, waiterVars, apiVars, hib_deps, popped, termVars, irVars, restVars,
                   operations, results>>

\* execute: let data = &node.lock().unwrap().data; data.clone().unwrap()
ExecReturn ==
    IF nodes[exec.node].data = None
    THEN exec' = [exec EXCEPT !.pc = "panicked"] /\ UNCHANGED results
    ELSE /\ exec' = [exec EXCEPT !.pc = "idle"]
         /\ results' = Append(results, [func |-> exec.func, inputs |-> exec.inputs,
                                        value |-> nodes[exec.node].data[1]])

\* execute: self.scheduler.wait_for_job(&job) - returns at once when the
\* root job is done, blocks on the notification channel otherwise
VmWait ==
    /\ exec.pc = "started"
    /\ ~poisoned
    /\ Commit(build_job_notify_channel(State, nodes[exec.node].handle, MainThread))
    /\ IF is_done(State, nodes[exec.node].handle)
       THEN ExecReturn
       ELSE exec' = [exec EXCEPT !.pc = "blocked"] /\ UNCHANGED results
    /\ UNCHANGED <<workerVars, waiterVars, apiVars, histVars, termVars, irVars, restVars,
                   nodes, closures, operations>>

\* wait_for_job: receiver.recv().unwrap() returns
VmWake ==
    /\ exec.pc = "blocked"
    /\ chan[MainThread] = "signalled"
    /\ ExecReturn
    /\ UNCHANGED <<schedVars, workerVars, waiterVars, apiVars, histVars, termVars, irVars, restVars,
                   nodes, closures, operations>>

\* the closure of the job a worker holds
Closure(w) == closures[handle[w]]

\* VirtualNode::external, the job closure: read every input, call the
\* function, store the output. unwrap() of an absent input panics and ends
\* the worker thread.
ExternalBody(w) ==
    /\ pc[w] = "running"
    /\ Closure(w).kind = "external"
    /\ LET c    == Closure(w)
           data == [k \in 1..Len(c.inputs) |-> nodes[c.inputs[k]].data]
       IN  IF \E k \in 1..Len(data) : data[k] = None
           THEN /\ pc' = [pc EXCEPT ![w] = "panicked"]
                /\ UNCHANGED nodes
           ELSE /\ nodes' = [nodes EXCEPT ![c.node].data =
                        Some(function(c.func, [k \in 1..Len(data) |-> data[k][1]]))]
                /\ pc' = [pc EXCEPT ![w] = "returned"]
    /\ UNCHANGED <<schedVars, handle, children, poisoned, waiterVars, apiVars, histVars,
                   termVars, irVars, restVars, closures, operations, exec, results>>

\* VirtualNode::internal, the expansion closure: one turn of the loop over
\* the function's operations
ExpandStep(w) ==
    /\ pc[w] = "running"
    /\ Closure(w).kind = "expand"
    /\ Len(operations[w]) < Len(get_operations(Closure(w).func))
    /\ LET c         == Closure(w)
           operation == get_operations(c.func)[Len(operations[w]) + 1]
           call      == operation.function_call
           op_inputs == [k \in 1..Len(operation.inputs) |->
                            input_node(c, operations[w], operation.inputs[k])]
       IN  IF \E k \in 1..Len(operation.inputs) :
                  input_panics(c, operations[w], operation.inputs[k])
           THEN /\ pc' = [pc EXCEPT ![w] = "panicked"]
                /\ UNCHANGED <<schedVars, deps_of, nodes, closures, operations>>
           ELSE /\ IF call.kind = "Constant"
                   THEN /\ nodes' = Append(nodes, [handle |-> 0,
                                                   data |-> Some(get_constants[call.index + 1])])
                        /\ UNCHANGED <<schedVars, deps_of, closures>>
                   ELSE NewNodeJob(nodes,
                                   IF call.kind = "Internal" THEN "expand" ELSE "external",
                                   call.index, op_inputs)
                /\ operations' = [operations EXCEPT ![w] = Append(@, Len(nodes) + 1)]
                /\ UNCHANGED pc
    /\ ~poisoned
    /\ UNCHANGED <<handle, children, poisoned, waiterVars, apiVars, hib_deps, popped,
                   termVars, irVars, restVars, exec, results>>

\* VirtualNode::internal, the expansion closure after the loop: the job that
\* copies the value of the last operation into the node, submitted behind
\* the last operation's job. unwrap() of a handle that is None panics.
ExpandTail(w) ==
    /\ pc[w] = "running"
    /\ Closure(w).kind = "expand"
    /\ Len(operations[w]) = Len(get_operations(Closure(w).func))
    /\ ~poisoned
    /\ LET c == Closure(w)
           last_operation == operations[w][Len(operations[w])]
           last_job == nodes[last_operation].handle
       IN  IF operations[w] = <<>> \/ last_job = 0
           THEN /\ pc' = [pc EXCEPT ![w] = "panicked"]
                /\ UNCHANGED <<schedVars, deps_of, closures, children>>
           ELSE /\ Commit(new_job(State, <<last_job>>))
                /\ deps_of' = [deps_of EXCEPT ![cur_job_id] = <<last_job>>]
                /\ closures' = Append(closures, [kind |-> "copy", node |-> c.node,
                                                 func |-> 0, inputs |-> <<last_operation>>])
                /\ children' = [children EXCEPT ![w] = expansion_returns(cur_job_id)]
                /\ pc' = [pc EXCEPT ![w] = "returned"]
    /\ operations' = [operations EXCEPT ![w] = <<>>]
    /\ UNCHANGED <<handle, poisoned, waiterVars, apiVars, hib_deps, popped,
                   termVars, irVars, restVars, nodes, exec, results>>

\* copy_data_job: job_node.data = last_operation.data.clone()
CopyBody(w) ==
    /\ pc[w] = "running"
    /\ Closure(w).kind = "copy"
    /\ nodes' = [nodes EXCEPT ![Closure(w).node].data = nodes[Closure(w).inputs[1]].data]
    /\ pc' = [pc EXCEPT ![w] = "returned"]
    /\ UNCHANGED <<schedVars, handle, children, poisoned, waiterVars, apiVars, histVars,
                   termVars, irVars, restVars, closures, operations, exec, results>>

\* workers.rs, after the closure returned: finish_job when it named no
\* child, hibernate on its children otherwise
VmReport(w) ==
    /\ pc[w] = "returned"
    /\ ~poisoned
    /\ IF children[w] = <<>>
       THEN Commit(finish_job(State, handle[w])) /\ UNCHANGED hib_deps
       ELSE /\ Commit(hibernate(State, handle[w], children[w]))
            /\ hib_deps' = [hib_deps EXCEPT ![handle[w]] = children[w]]
    /\ pc' = [pc EXCEPT ![w] = "idle"]
    /\ handle' = [handle EXCEPT ![w] = 0]
    /\ children' = [children EXCEPT ![w] = <<>>]
    /\ UNCHANGED <<poisoned, waiterVars, apiVars, deps_of, popped, otherVars>>

\* execute called from one thread, the pool built with NumWorkers workers
NextVM ==
    \/ \E f \in FuncIds : \E xs \in InputVecs(f) : VmExecute(f, xs)
    \/ VmWait
    \/ VmWake
    \/ \E w \in Workers : QueueNext(w)
    \/ \E w \in Workers : ExternalBody(w)
    \/ \E w \in Workers : ExpandStep(w)
    \/ \E w \in Workers : ExpandTail(w)
    \/ \E w \in Workers : CopyBody(w)
    \/ \E w \in Workers : VmReport(w)

SpecVM == Init /\ [][NextVM]_vars

\* the same with build_workers(&scheduler, 1), as in the test vm_hello_world
FirstWorker == {w \in Workers : \A v \in Workers : w <= v}
NextVM1 ==
    \/ \E f \in FuncIds : \E xs \in InputVecs(f) : VmExecute(f, xs)
    \/ VmWait
    \/ VmWake
    \/ \E w \in FirstWorker : QueueNext(w)
    \/ \E w \in FirstWorker : ExternalBody(w)
    \/ \E w \in FirstWorker : ExpandStep(w)
    \/ \E w \in FirstWorker : ExpandTail(w)
    \/ \E w \in FirstWorker : CopyBody(w)
    \/ \E w \in FirstWorker : VmReport(w)

SpecVM1 == Init /\ [][NextVM1]_vars

\* the same under a fair scheduler: the one worker thread and the thread in
\* execute take every step they can take
\* the steps of the thread in execute after its call, and those of the
\* worker; Reported(w) is the step VmReport(w), told by what it does to pc
ExecuteThread == VmWait \/ VmWake
WorkerThread(w) ==
    \/ QueueNext(w)
    \/ ExternalBody(w)
    \/ ExpandStep(w)
    \/ ExpandTail(w)
    \/ CopyBody(w)
Reported(w) == pc[w] = "returned" /\ ~poisoned /\ pc' = [pc EXCEPT ![w] = "idle"]
SpecVM1Fair ==
    /\ Init
    /\ [][NextVM1]_vars
    /\ WF_vars(ExecuteThread)
    /\ \A w \in FirstWorker : WF_vars(WorkerThread(w)) /\ WF_pc(Reported(w))

\* ------------------------------------- the IR builder and the assembler
\* ExpressionNode: an Int or Bool literal (true is written 1, false 0), a
\* variable, a call of an external or of an internal function
IntLiteral(v) == [kind |-> "IntLiteral", value |-> v]
BoolLiteral(v) == [kind |-> "BoolLiteral", value |-> v]
Variable(name) == [kind |-> "Variable", name |-> name]
FunctionCall(function_name, external, arguments) ==
    [kind |-> "FunctionCall", function_name |-> function_name,
     external |-> external, arguments |-> arguments]

\* the names function_registry.get_function finds
RegisteredNames == {"Add", "Mul"}

\* IRFuncCall: External(name), Unresolved(name), Internal(value),
\* IntConstant(value), BoolConstant(value)
IRFuncCall(kind, name, value) == [kind |-> kind, name |-> name, value |-> value]

\* what the parser can hand over: one parameter, assignments to two names or
\* to none, calls whose arguments are literals and variables
ParamNames == <<"a">>
VarNames == {"x", "y"}
AtomExprs == {IntLiteral(1)} \cup {Variable(n) : n \in VarNames \cup Range(ParamNames)}
Exprs == AtomExprs \cup {FunctionCall("Add", TRUE, args) :
                             args \in UNION {[1..n -> AtomExprs] : n \in 1..MaxArgs}}
\* AssignmentNode: variable "" stands for None
AssignmentNodes == [variable : VarNames \cup {""}, expression : Exprs]

\* expression_contains_variable
RECURSIVE expression_contains_variable(_, _)
expression_contains_variable(expr, var) ==
    CASE expr.kind = "Variable" -> expr.name = var
      [] expr.kind = "FunctionCall" ->
             \E k \in 1..Len(expr.arguments) :
                 expression_contains_variable(expr.arguments[k], var)
      [] OTHER -> FALSE

\* the closure given to sort_by in parse_function_statements
compare(a, b) ==
    IF a.variable = "" \/ b.variable = "" THEN "Equal"
    ELSE IF expression_contains_variable(b.expression, a.variable) THEN "Less"
    ELSE IF expression_contains_variable(a.expression, b.variable) THEN "Greater"
    ELSE "Equal"

\* slice::sort_by on a short slice: a stable insertion sort, each element
\* moved left while it compares Less than its left neighbour
RECURSIVE insert_tail(_, _)
insert_tail(v, j) ==
    IF j > 1 /\ compare(v[j], v[j - 1]) = "Less"
    THEN insert_tail([v EXCEPT ![j] = v[j - 1], ![j - 1] = v[j]], j - 1)
    ELSE v
RECURSIVE sort_upto(_, _)
sort_upto(v, n) == IF n <= 1 THEN v ELSE insert_tail(sort_upto(v, n - 1), n)
sort_by(v) == sort_upto(v, Len(v))

\* IRNodeInput
FunctionParam(i) == [kind |-> "FunctionParam", index |-> i]
HiddenNode(i) == [kind |-> "HiddenNode", index |-> i]

\* position of the first assignment to the name among those that have a
\* variable, counted from 0; -1 is None
hidden_pos(assignments, name) ==
    LET named == SelectSeq(assignments, LAMBDA a : a.variable # "")
        at    == {k \in 1..Len(named) : named[k].variable = name}
    IN  IF at = {} THEN 0 - 1 ELSE (CHOOSE k \in at : \A m \in at : k <= m) - 1

\* parse_expression_into_nodes: the nodes Vec after the call, the
\* IRNodeInput returned, and whether Err was returned instead
RECURSIVE parse_expression_into_nodes(_, _, _, _)
RECURSIVE parse_arguments(_, _, _, _, _)
parse_arguments(args, n, stmts, assignments, params) ==
    IF n = 0 THEN [nodes |-> stmts, inputs |-> <<>>, err |-> FALSE]
    ELSE LET before == parse_arguments(args, n - 1, stmts, assignments, params)
             this   == parse_expression_into_nodes(args[n], before.nodes, assignments, params)
         IN  IF before.err THEN before
             ELSE [nodes |-> this.nodes, inputs |-> Append(before.inputs, this.input),
                   err |-> this.err]
parse_expression_into_nodes(expr, stmts, assignments, params) ==
    CASE expr.kind = "IntLiteral" ->
             [nodes |-> Append(stmts, [function |-> IRFuncCall("IntConstant", "", expr.value), inputs |-> <<>>]),
              input |-> HiddenNode(Len(stmts)), err |-> FALSE]
      [] expr.kind = "BoolLiteral" ->
             [nodes |-> Append(stmts, [function |-> IRFuncCall("BoolConstant", "", expr.value), inputs |-> <<>>]),
              input |-> HiddenNode(Len(stmts)), err |-> FALSE]
      [] expr.kind = "Variable" ->
             IF Position(params, expr.name) # 0
             THEN [nodes |-> stmts, input |-> FunctionParam(Position(params, expr.name) - 1),
                   err |-> FALSE]
             ELSE [nodes |-> stmts, input |-> HiddenNode(hidden_pos(assignments, expr.name)),
                   err |-> hidden_pos(assignments, expr.name) < 0]
      [] OTHER ->
             LET in == parse_arguments(expr.arguments, Len(expr.arguments), stmts,
                                       assignments, params)
             IN  IF in.err THEN [nodes |-> in.nodes, input |-> HiddenNode(0), err |-> TRUE]
                 ELSE IF expr.external /\ expr.function_name \notin RegisteredNames
                 THEN [nodes |-> in.nodes, input |-> HiddenNode(0), err |-> TRUE]
                 ELSE [nodes |-> Append(in.nodes,
                                        [function |-> IF expr.external
                                                      THEN IRFuncCall("External", expr.function_name, 0)
                                                      ELSE IRFuncCall("Unresolved", expr.function_name, 0),
                                         inputs |-> in.inputs]),
                       input |-> HiddenNode(Len(in.nodes)), err |-> FALSE]

\* parse_function_statements: the loop runs over function.assignments, the
\* variables are looked up in the sorted copy
RECURSIVE parse_assignments(_, _, _, _)
parse_assignments(source, n, sorted, params) ==
    IF n = 0 THEN [nodes |-> <<>>, err |-> FALSE]
    ELSE LET before == parse_assignments(source, n - 1, sorted, params)
             this   == parse_expression_into_nodes(source[n].expression, before.nodes,
                                                   sorted, params)
         IN  IF before.err THEN before ELSE [nodes |-> this.nodes, err |-> this.err]
\* the order in which the loop of parse_function_statements visits the
\* assignments to emit their nodes: `for assignment in &function.assignments`
emission_order(assignments) == assignments
\* verify_no_circular_deps: whether Err is returned (the body is a TODO that
\* returns Ok(()) for every slice)
verify_no_circular_deps(assignments) == FALSE
parse_function_statements(assignments, params) ==
    IF verify_no_circular_deps(assignments) THEN [nodes |-> <<>>, err |-> TRUE]
    ELSE parse_assignments(emission_order(assignments), Len(assignments),
                           sort_by(assignments), params)

\* Data: the values a constant of the bytecode can hold
Data(type, value) == [type |-> type, value |-> value]

\* VertexBytecode::new, with the flag that the assembler panicked
NewBytecode == [external_functions |-> <<>>, internal_functions |-> <<>>,
                constants |-> <<>>, panic |-> FALSE]

\* add_const: the bytecode after the call and the FunctionCall returned
add_const_always_pushes(b, constant) ==
    [bytecode |-> [b EXCEPT !.constants = Append(@, constant)],
     call |-> [kind |-> "Constant", index |-> Len(b.constants)]]
add_const(b, constant) ==
    IF Position(b.constants, constant) # 0
    THEN [bytecode |-> b,
          call |-> [kind |-> "Constant", index |-> Position(b.constants, constant) - 1]]
    ELSE [bytecode |-> [b EXCEPT !.constants = Append(@, constant)],
          call |-> [kind |-> "Constant", index |-> Len(b.constants)]]

\* add_ext_func
add_ext_func_always_pushes(b, name) ==
    [bytecode |-> [b EXCEPT !.external_functions = Append(@, name)],
     call |-> [kind |-> "External", index |-> Len(b.external_functions)]]
add_ext_func(b, name) ==
    IF Position(b.external_functions, name) # 0
    THEN [bytecode |-> b,
          call |-> [kind |-> "External",
                    index |-> Position(b.external_functions, name) - 1]]
    ELSE IF name \in RegisteredNames
    THEN [bytecode |-> [b EXCEPT !.external_functions = Append(@, name)],
          call |-> [kind |-> "External", index |-> Len(b.external_functions)]]
    ELSE [bytecode |-> [b EXCEPT !.panic = TRUE],
          call |-> [kind |-> "External", index |-> 0]]

\* the match on statement.get_function() in bytecode_from_ir
function_call(b, f) ==
    CASE f.kind = "External"     -> add_ext_func(b, f.name)
      [] f.kind = "Internal"     -> [bytecode |-> b,
                                     call |-> [kind |-> "Internal", index |-> f.value]]
      [] f.kind = "IntConstant"  -> add_const(b, Data("Int", f.value))
      [] f.kind = "BoolConstant" -> add_const(b, Data("Bool", f.value))
      [] OTHER                   -> [bytecode |-> [b EXCEPT !.panic = TRUE],
                                     call |-> [kind |-> "Internal", index |-> 0]]

\* the inner loop of bytecode_from_ir: the first n statements of a function
\* assembled into int_func on top of the bytecode b
RECURSIVE assemble_statements(_, _, _)
assemble_statements(b, statements, n) ==
    IF n = 0 THEN [bytecode |-> b, int_func |-> <<>>]
    ELSE LET before == assemble_statements(b, statements, n - 1)
             func   == function_call(before.bytecode, statements[n].function)
             inputs == [k \in 1..Len(statements[n].inputs) |->
                           IF statements[n].inputs[k].kind = "FunctionParam"
                           THEN Param(statements[n].inputs[k].index)
                           ELSE Hidden(statements[n].inputs[k].index)]
         IN  IF before.bytecode.panic THEN before
             ELSE [bytecode |-> func.bytecode,
                   int_func |-> Append(before.int_func,
                                       Operation(func.call.kind, func.call.index, inputs))]

\* bytecode_from_ir: the outer loop over the first n functions of the context
RECURSIVE assemble_functions(_, _)
assemble_functions(functions, n) ==
    IF n = 0 THEN NewBytecode
    ELSE LET before == assemble_functions(functions, n - 1)
             this   == assemble_statements(before, functions[n].statements,
                                           Len(functions[n].statements))
         IN  IF before.panic THEN before
             ELSE [this.bytecode EXCEPT !.internal_functions = Append(@, this.int_func)]
bytecode_from_ir(ctx) == assemble_functions(ctx.functions, Len(ctx.functions))

\* IRFunction::new
IRFunction(path, accessability, statements) ==
    [path |-> path, accessability |-> accessability, statements |-> statements]

\* grammar: one more assignment of the function body is parsed
ParseAssignment(a) ==
    /\ ir = "none"
    /\ Len(ast) < MaxAssignments
    /\ ast' = Append(ast, a)
    /\ UNCHANGED <<ir, bc>>
    /\ UNCHANGED <<schedVars, workerVars, waiterVars, apiVars, histVars, termVars, vmVars, restVars>>

\* load_function: the statements of the function, or the error
LoadFunction ==
    /\ ir = "none"
    /\ ast # <<>>
    /\ ir' = IF parse_function_statements(ast, ParamNames).err THEN "Err" ELSE "Ok"
    /\ bc' = IF parse_function_statements(ast, ParamNames).err THEN <<>>
             ELSE bytecode_from_ir(
                      [structs |-> <<>>,
                       functions |-> << IRFunction(<<"Main">>, 0,
                                            parse_function_statements(ast, ParamNames).nodes) >>]
                  ).internal_functions[1]
    /\ UNCHANGED ast
    /\ UNCHANGED <<schedVars, workerVars, waiterVars, apiVars, histVars, termVars, vmVars, restVars>>

NextIR ==
    \/ \E a \in AssignmentNodes : ParseAssignment(a)
    \/ LoadFunction

SpecIR == Init /\ [][NextIR]_vars

\* ------------------------------- compile_context and from_source on a tree
\* what the parser can hand over as names and as function bodies: literals,
\* external calls on a literal or on the parameter, a call of the function F
Names == [module |-> {"M"}, function |-> {"F", "G"}, struct |-> {"P"}]
CtxExprs ==
    { IntLiteral(1), BoolLiteral(1),
      FunctionCall("Add", TRUE, <<Variable("a")>>),
      FunctionCall("Mul", TRUE, <<IntLiteral(2)>>),
      FunctionCall("F", FALSE, <<Variable("a")>>) }
Bodies == UNION {[1..n -> [variable : {"x"}, expression : CtxExprs]] : n \in 0..MaxAssignments}

\* the call at the top of the stack, and the values its caller passed down:
\* compile_context passes path [], depth 0 and accessability 0
Top == stack[Len(stack)]
Caller ==
    IF stack = <<>> THEN [path |-> <<>>, depth |-> 0, accessability |-> 0, element |-> 0]
    ELSE [path |-> Top.path, depth |-> Top.depth, accessability |-> Top.accessability,
          element |-> Top.element]

\* the head of load_module and of load_function: the name is pushed on the
\* path, the depth is incremented and the accessability replaced by it when
\* the element is not exported
Frame(kind, name, export, assignments) ==
    [kind |-> kind,
     path |-> Append(Caller.path, name),
     depth |-> Caller.depth + 1,
     accessability |-> IF ~export THEN Caller.depth + 1 ELSE Caller.accessability,
     phase |-> IF kind = "module" THEN "modules" ELSE "functions",
     assignments |-> assignments,
     element |-> Len(elements) + 1]

\* history record of a loaded element; parent is the place of the enclosing
\* element in the history, 0 for a module of the context itself
Element(kind, export, depth, accessability) ==
    [kind |-> kind, export |-> export, depth |-> depth,
     accessability |-> accessability, parent |-> Caller.element]

Functions == {i \in 1..Len(elements) : elements[i].kind = "function"}

\* load_module is called: by compile_context, or by the loop of a module
\* over its nested modules
EnterModule(name, export) ==
    /\ stage = "loading"
    /\ Len(elements) < MaxElements
    /\ Len(stack) < MaxDepth
    /\ IF stack = <<>> THEN TRUE ELSE Top.kind = "module" /\ Top.phase = "modules"
    /\ stack' = Append(stack, Frame("module", name, export, <<>>))
    /\ elements' = Append(elements,
                          Element("module", export, Frame("module", name, export, <<>>).depth,
                                  Frame("module", name, export, <<>>).accessability))
    /\ UNCHANGED <<context, stage, bytecode>>
    /\ UNCHANGED <<schedVars, workerVars, waiterVars, apiVars, histVars, termVars, vmVars, irVars, regVars, svmVars, rdVars>>

\* load_function is called by the loop of a module or of a function over its
\* nested functions, which runs after the loop over the nested modules
EnterFunction(name, export, assignments) ==
    /\ stage = "loading"
    /\ Len(elements) < MaxElements
    /\ Cardinality(Functions) < MaxFunctions
    /\ Len(stack) < MaxDepth
    /\ stack # <<>>
    /\ Top.phase \in {"modules", "functions"}
    /\ stack' = Append([stack EXCEPT ![Len(stack)].phase = "functions"],
                       Frame("function", name, export, assignments))
    /\ elements' = Append(elements,
                          Element("function", export,
                                  Frame("function", name, export, assignments).depth,
                                  Frame("function", name, export, assignments).accessability))
    /\ UNCHANGED <<context, stage, bytecode>>
    /\ UNCHANGED <<schedVars, workerVars, waiterVars, apiVars, histVars, termVars, vmVars, irVars, regVars, svmVars, rdVars>>

\* load_struct, called by the last loop of a module or of a function with
\* the accessability of the caller; the export flag of the StructNode is
\* not read
LoadStruct(name, export) ==
    /\ stage = "loading"
    /\ Len(elements) < MaxElements
    /\ stack # <<>>
    /\ stack' = [stack EXCEPT ![Len(stack)].phase = "structs"]
    /\ context' = [context EXCEPT !.structs =
                       Append(@, [path |-> Append(Top.path, name),
                                  accessability |-> Top.accessability])]
    /\ elements' = Append(elements,
                          Element("struct", export, Top.depth + 1, Top.accessability))
    /\ UNCHANGED <<stage, bytecode>>
    /\ UNCHANGED <<schedVars, workerVars, waiterVars, apiVars, histVars, termVars, vmVars, irVars, regVars, svmVars, rdVars>>

\* load_module returns Ok
ExitModule ==
    /\ stage = "loading"
    /\ stack # <<>>
    /\ Top.kind = "module"
    /\ stack' = SubSeq(stack, 1, Len(stack) - 1)
    /\ UNCHANGED <<context, stage, bytecode, elements>>
    /\ UNCHANGED <<schedVars, workerVars, waiterVars, apiVars, histVars, termVars, vmVars, irVars, regVars, svmVars, rdVars>>

\* the tail of load_function: the statements are parsed and the IRFunction
\* is added to the context, or the error is passed up to compile_context
ExitFunction ==
    /\ stage = "loading"
    /\ stack # <<>>
    /\ Top.kind = "function"
    /\ LET statements == parse_function_statements(Top.assignments, ParamNames)
       IN  IF statements.err
           THEN /\ stage' = "Err"
                /\ stack' = <<>>
                /\ UNCHANGED context
           ELSE /\ context' = [context EXCEPT !.functions =
                                   Append(@, IRFunction(Top.path, Top.accessability,
                                                        statements.nodes))]
                /\ stack' = SubSeq(stack, 1, Len(stack) - 1)
                /\ UNCHANGED stage
    /\ UNCHANGED <<bytecode, elements>>
    /\ UNCHANGED <<schedVars, workerVars, waiterVars, apiVars, histVars, termVars, vmVars, irVars, regVars, svmVars, rdVars>>

\* resolve_function_calls: for an Unresolved node the candidate is computed
\* into a local that is dropped; the context is not written
resolve_function_calls(ctx) == ctx

\* the tail of compile_context after the last module
CompileContext ==
    /\ stage = "loading"
    /\ stack = <<>>
    /\ context' = resolve_function_calls(context)
    /\ stage' = "Ok"
    /\ UNCHANGED <<stack, bytecode, elements>>
    /\ UNCHANGED <<schedVars, workerVars, waiterVars, apiVars, histVars, termVars, vmVars, irVars, regVars, svmVars, rdVars>>

\* from_source after compile_context returned Ok: bytecode_from_ir
FromSource ==
    /\ stage = "Ok"
    /\ bytecode' = bytecode_from_ir(context)
    /\ stage' = IF bytecode_from_ir(context).panic THEN "panic" ELSE "assembled"
    /\ UNCHANGED <<stack, context, elements>>
    /\ UNCHANGED <<schedVars, workerVars, waiterVars, apiVars, histVars, termVars, vmVars, irVars, regVars, svmVars, rdVars>>

NextCtx ==
    \/ \E name \in Names.module, export \in BOOLEAN : EnterModule(name, export)
    \/ \E name \in Names.function, export \in BOOLEAN, body \in Bodies :
           EnterFunction(name, export, body)
    \/ \E name \in Names.struct, export \in BOOLEAN : LoadStruct(name, export)
    \/ ExitModule
    \/ ExitFunction
    \/ CompileContext
    \/ FromSource

SpecCtx == Init /\ [][NextCtx]_vars

\* ------------------------------------------------------------ observations
\* finish_job has run for the job
WasFinished(j) == finished[j] > 0
\* the job is held by a worker that dequeued it and has not yet reported it
InFlight(j) == \E w \in Workers : pc[w] = "running" /\ handle[w] = j
\* every job named in the vector has been finished
AllFinished(v) == \A i \in 1..Len(v) : WasFinished(v[i])
\* the ids is_done reports as finished
DoneIds == {id \in 1..(MaxJobs + MaxApiCalls) : is_done(State, id)}
\* number of places of a sequence that hold x
Count(v, x) == Cardinality({i \in 1..Len(v) : v[i] = x})

\* ------------------------------------------------------------------ claims
\* C1: a job submitted with dependencies is never sent to the ready queue (and
\* so never dequeued, hibernated or finished) before finish_job has run for
\* every one of its dependencies.
C1_DependenciesFinishBeforeStart ==
    \A j \in Issued : j \in Range(pushed) => AllFinished(deps_of[j])
\* a job that new_job put to sleep has been released and dequeued by a worker
C1_Witness ==
    \E j \in Issued : j \in slept /\ deps_of[j] # <<>> /\ InFlight(j)

\* C2: while a job that called hibernate still has an unfinished child,
\* is_done is false for it and every job depending on it is still sleeping.
C2_HibernatingNotFinished ==
    \A a \in Issued :
        (hib_deps[a] # <<>> /\ ~AllFinished(hib_deps[a]))
            => /\ ~is_done(State, a)
               /\ ~WasFinished(a)
               /\ \A j \in Issued : Contains(deps_of[j], a) =>
                      (is_sleeping(State, j) /\ j \notin Range(pushed))
\* a parent hibernates on an unfinished child while a third job waits for the parent
C2_Witness ==
    \E a \in Issued, j \in Issued :
        /\ hib_deps[a] # <<>> /\ ~AllFinished(hib_deps[a])
        /\ Contains(deps_of[j], a) /\ is_sleeping(State, j)

\* C3: no job is left in the sleeping list once finish_job has run for every
\* job it depends on (each finish_job releases what it completes, and a
\* submit racing with it is either queued at once or released by it).
C3_NoSleeperWithFinishedDeps ==
    \A i \in 1..Len(sleeping_jobs) : ~AllFinished(deps_of[sleeping_jobs[i].handle])

\* C4: new_job drops the dependencies already finished; with none left the
\* job is sent to the queue in that call, otherwise it is appended to the
\* sleeping list with exactly the unfinished dependencies.
C4_SubmitDropsFinished ==
    [][cur_job_id' # cur_job_id =>
        LET id   == cur_job_id
            rest == SelectSeq(deps_of'[id], LAMBDA d : ~WasFinished(d))
        IN  IF rest = <<>>
            THEN queue' = Append(queue, id) /\ sleeping_jobs' = sleeping_jobs
            ELSE /\ queue' = queue
                 /\ sleeping_jobs' =
                        Append(sleeping_jobs, [handle |-> id, dependencies |-> rest])]_vars
\* a job submitted with a finished and an unfinished dependency sleeps on the
\* unfinished one alone, next to a job queued at once although it named one
C4_Witness ==
    /\ \E i \in 1..Len(sleeping_jobs) :
           LET e == sleeping_jobs[i]
           IN  /\ Len(deps_of[e.handle]) = 2
               /\ Len(e.dependencies) = 1
               /\ ~WasFinished(e.dependencies[1])
               /\ \E k \in 1..2 : WasFinished(deps_of[e.handle][k])
    /\ \E j \in Issued : deps_of[j] # <<>> /\ j \notin slept

\* C5: every id up to the watermark min_job_id is finished, and no job above
\* the watermark that still has an unfinished dependency is in the ready queue.
C5_Watermark ==
    /\ \A id \in 1..min_job_id : id \in Issued /\ WasFinished(id)
    /\ \A i \in 1..Len(queue) :
           queue[i] > min_job_id => AllFinished(deps_of[queue[i]])
\* the watermark has moved, a finished id waits above it, and a job with
\* dependencies is queued
C5_Witness ==
    /\ min_job_id >= 1
    /\ buffer # <<>>
    /\ \E i \in 1..Len(queue) : deps_of[queue[i]] # <<>>

\* C6: every issued handle is in exactly one of: the sleeping list, the ready
\* queue, in flight on a worker, the hibernating list, finished.
Places(j) ==
      Cardinality({i \in 1..Len(sleeping_jobs) : sleeping_jobs[i].handle = j})
    + Count(queue, j)
    + Cardinality({w \in Workers : pc[w] = "running" /\ handle[w] = j})
    + Cardinality({i \in 1..Len(hibernating_jobs) : hibernating_jobs[i].handle = j})
    + (IF is_done(State, j) THEN 1 ELSE 0)
C6_ExactlyOnePlace == \A j \in Issued : Places(j) = 1
\* one job sleeps, one is in flight and one hibernates at the same time
C6_Witness ==
    /\ sleeping_jobs # <<>>
    /\ hibernating_jobs # <<>>
    /\ \E j \in Issued : InFlight(j)

\* C7: wait_for_job returns at once when the job is already finished and
\* blocks otherwise; whenever it has returned, the job is finished.
C7_WaitReturnsAfterFinish ==
    /\ [](\A t \in Waiters :
            wstate[t] = "returned" => (WasFinished(wjob[t]) /\ is_done(State, wjob[t])))
    /\ [][\A t \in Waiters :
            (wstate[t] = "none" /\ wstate'[t] # "none") =>
                (wstate'[t] = "returned" <=> WasFinished(wjob'[t]))]_vars
\* a waiter that blocked on an unfinished job was woken and has returned
C7_Witness ==
    \E t \in Waiters : wstate[t] = "returned" /\ chan[t] = "signalled"

\* C8: for every job at most one notification is sent, only once it is
\* finished, and its channel is then gone from push_notifications.
C8_NotifyOnce ==
    \A j \in JobIds :
        /\ notified[j] <= 1
        /\ notified[j] = 1 => (WasFinished(j) /\ push_notifications[j] = 0)
\* a job that was finished by the cascade out of the hibernating list notified its waiter
C8_Witness ==
    \E j \in Issued : j \in parked /\ notified[j] = 1

\* C9: handles leave the queue in exactly the order in which new_job and
\* finish_job sent them.
C9_Fifo == pushed = popped \o queue
\* a, b depending on a, and c were submitted: a and c were dequeued in that
\* order, and b after finish_job(a)
C9_Witness ==
    /\ popped = <<1, 3, 2>>
    /\ deps_of[1] = <<>> /\ deps_of[2] = <<1>> /\ deps_of[3] = <<>>

\* C10: a finish_job call on a handle that is already finished changes
\* neither min_job_id nor the set of ids that is_done reports.
C10_FinishIdempotent ==
    [][(/\ \E h \in JobIds : finished'[h] > finished[h]
        /\ \A h \in JobIds : finished'[h] > finished[h] => is_done(State, h))
          => (min_job_id' = min_job_id /\ DoneIds' = DoneIds)]_vars

\* the scheduler's own fields
Fields == <<min_job_id, cur_job_id, buffer, sleeping_jobs, hibernating_jobs,
            push_notifications, queue>>

\* C11: new_job with a dependency of another scheduler, and hibernate,
\* finish_job and is_done on a handle of another scheduler, panic and leave
\* every field of the scheduler as it was.
C11_ForeignHandlePanics ==
    [][(api_calls' # api_calls /\ last_call'.foreign)
          => (panicked' /\ UNCHANGED Fields /\ UNCHANGED <<finished, notified>>)]_vars
\* finish_job was called with a handle of the other scheduler whose job id
\* is that of a job sleeping here, next to a queued job
C11_Witness ==
    /\ panicked /\ last_call.foreign /\ last_call.op = "finish_job"
    /\ is_sleeping(State, last_call.job_id)
    /\ queue # <<>>

\* C12: finish_job and hibernate on a handle that is in the sleeping list
\* panic and change nothing, so finish_job has run, or hibernate has parked,
\* only for jobs that were sent to the ready queue before.
C12_SleepingHandleRejected ==
    /\ [](\A j \in JobIds : (WasFinished(j) \/ j \in parked) => Contains(pushed, j))
    /\ [][(/\ api_calls' # api_calls
           /\ last_call'.op \in {"finish_job", "hibernate"}
           /\ ~last_call'.foreign
           /\ is_sleeping(State, last_call'.job_id))
             => (panicked' /\ UNCHANGED Fields /\ UNCHANGED <<finished, parked>>)]_vars
\* hibernate was refused for a sleeping job after another job had been
\* dequeued and parked
C12_Witness ==
    /\ panicked /\ ~last_call.foreign /\ last_call.op = "hibernate"
    /\ is_sleeping(State, last_call.job_id)
    /\ parked # {}

\* C13: once terminate_workers has run, every worker that waits in
\* queue.next() on an empty queue eventually leaves its loop.
C13_WorkersExit ==
    \A w \in Workers :
        (~sender /\ pc[w] = "idle" /\ queue = <<>>) ~> (pc[w] = "exited")
\* both workers have left: one was idle at the shutdown, the other came back
\* from a job it was running
C13_Witness ==
    /\ ~sender
    /\ \A w \in Workers : pc[w] = "exited"
    /\ \E j \in JobIds : WasFinished(j)

\* C14: after terminate_workers no handle leaves the ready queue, and every
\* job that was in flight gets through its finish_job or hibernate call.
C14_HardShutdown ==
    [][~sender => (popped' = popped /\ \A w \in Workers : pc'[w] # "panicked")]_vars

\* ------------------------------------------------- claims about the VM
\* the value of function f on the inputs xs, its operations evaluated one
\* after the other in their order
RECURSIVE Eval(_, _)
RECURSIVE EvalOps(_, _, _)
EvalOps(f, xs, n) ==
    IF n = 0 THEN <<>>
    ELSE LET prev == EvalOps(f, xs, n - 1)
             op   == get_operations(f)[n]
             args == [k \in 1..Len(op.inputs) |->
                         IF op.inputs[k].kind = "Param"
                         THEN xs[op.inputs[k].index + 1]
                         ELSE prev[op.inputs[k].index + 1]]
         IN  Append(prev,
                 CASE op.function_call.kind = "Internal" -> Eval(op.function_call.index, args)
                   [] op.function_call.kind = "External" ->
                          IF op.function_call.index = 0 THEN args[1] + args[2]
                                                        ELSE args[1] - args[2]
                   [] OTHER -> get_constants[op.function_call.index + 1])
Eval(f, xs) == EvalOps(f, xs, Len(get_operations(f)))[Len(get_operations(f))]

\* the jobs the VM has submitted
VmJobs == 1..Len(closures)
\* the thread in execute waits for a job that nothing in the process can
\* finish any more: no handle is queued and no worker is inside a job
Stuck ==
    /\ exec.pc = "blocked"
    /\ chan[MainThread] = "open"
    /\ queue = <<>>
    /\ \A w \in Workers : pc[w] \in {"idle", "panicked"}

\* C15: while a worker is inside the job closure of an external node, every
\* input node of that node holds a value.
C15_InputsPresent ==
    \A w \in Workers :
        (pc[w] = "running" /\ Closure(w).kind = "external")
            => \A k \in 1..Len(Closure(w).inputs) : nodes[Closure(w).inputs[k]].data # None
\* a worker is about to run an external node one of whose inputs is an
\* internal node, while the other worker is inside a job too
C15_Witness ==
    \E w \in Workers :
        /\ pc[w] = "running" /\ Closure(w).kind = "external"
        /\ \E k \in 1..Len(Closure(w).inputs) :
               LET h == nodes[Closure(w).inputs[k]].handle
               IN  h # 0 /\ closures[h].kind = "expand"
        /\ \E v \in Workers : v # w /\ pc[v] # "idle"

\* C16: the job of an internal node is done only after its tail-copy job
\* has run and the node holds a value; execute never finds the root node
\* empty after wait_for_job.
C16_InternalFinishedAfterCopy ==
    /\ \A j \in VmJobs :
           (closures[j].kind = "expand" /\ (is_done(State, j) \/ WasFinished(j)))
               => /\ nodes[closures[j].node].data # None
                  /\ \E k \in VmJobs : /\ closures[k].kind = "copy"
                                       /\ closures[k].node = closures[j].node
                                       /\ WasFinished(k)
    /\ exec.pc # "panicked"
\* execute has returned from a function that calls another internal function
C16_Witness ==
    \E i \in 1..Len(results) : results[i].func = 2

\* C17: execute(f, xs) returns, and what it returns is the value of f's
\* operations evaluated in order, whatever the workers do.
C17_ExecuteSequential ==
    /\ \A i \in 1..Len(results) :
           results[i].value = Eval(results[i].func, results[i].inputs)
    /\ ~Stuck

\* function g is one call of f on g's own parameters
Wraps(g, f) ==
    /\ InternalFunctions[g + 1].params = InternalFunctions[f + 1].params
    /\ get_operations(g) =
           << Operation("Internal", f,
                        [k \in 1..InternalFunctions[g + 1].params |-> Param(k - 1)]) >>

\* C18: when g is one call of f on g's own parameters, execute(g, xs) and
\* execute(f, xs) return the same value.
C18_Compositional ==
    \A i \in 1..Len(results), j \in 1..Len(results) :
        (Wraps(results[j].func, results[i].func) /\ results[j].inputs = results[i].inputs)
            => results[j].value = results[i].value
\* F and its wrapper G were both executed on two different arguments
C18_Witness ==
    \E i \in 1..Len(results), j \in 1..Len(results) :
        /\ Wraps(results[j].func, results[i].func)
        /\ results[j].inputs = results[i].inputs
        /\ results[i].inputs[1] # results[i].inputs[2]

C20_TopologicalSoundness ==
    ir = "Ok" =>
        \A i \in 1..Len(bc) : \A k \in 1..Len(bc[i].inputs) :
            bc[i].inputs[k].kind = "Hidden" => bc[i].inputs[k].index < i - 1

\* assignment r reads the variable that assignment w writes, and not the
\* other way round
Reads(r, w) ==
    /\ w.variable # ""
    /\ expression_contains_variable(r.expression, w.variable)
    /\ ~(r.variable # "" /\ expression_contains_variable(w.expression, r.variable))

\* C21: in the order in which the assignments of a loaded function were
\* visited for emission, an assignment whose right-hand side mentions the
\* variable of another assignment comes after that assignment.
C21_WritersBeforeReaders ==
    ir = "Ok" =>
        \A i \in 1..Len(ast), j \in 1..Len(ast) :
            Reads(emission_order(ast)[i], emission_order(ast)[j]) => j < i

\* the right-hand side of assignment i of the function mentions the variable
\* of assignment j
Mentions(i, j) ==
    /\ ast[j].variable # ""
    /\ expression_contains_variable(ast[i].expression, ast[j].variable)
\* assignment j is reached from assignment i through at most n bindings
RECURSIVE DependsWithin(_, _, _)
DependsWithin(i, j, n) ==
    /\ n > 0
    /\ \/ Mentions(i, j)
       \/ \E k \in 1..Len(ast) : Mentions(i, k) /\ DependsWithin(k, j, n - 1)
\* some assignment of the function depends on itself
Circular == \E i \in 1..Len(ast) : DependsWithin(i, i, Len(ast))

\* C22: a function whose assignments depend on each other circularly is not
\* loaded: the IR builder returns an error and no statements.
C22_CircularRejected == (ir # "none" /\ Circular) => (ir = "Err" /\ bc = <<>>)

\* ------------------------------------------------ the function registry
\* IRDataType: the kind and the types it is made of
IRDataType(kind, elems) == [kind |-> kind, elems |-> elems]
\* the types a caller passes to FuncMeta::new as inputs and as output
DataTypes ==
    [input  |-> { IRDataType("Int", <<>>), IRDataType("Unknown", <<>>),
                  IRDataType("List", << IRDataType("Unresolved", <<>>) >>) },
     output |-> { IRDataType("Int", <<>>),
                  IRDataType("List", << IRDataType("Int", <<>>) >>),
                  IRDataType("Tuple", << IRDataType("Int", <<>>),
                                         IRDataType("Unknown", <<>>) >>) }]

\* IRDataType::is_resolved
RECURSIVE is_resolved(_)
is_resolved_shallow(t) == t.kind \notin {"Unresolved", "Unknown"}
is_resolved(t) ==
    /\ t.kind \notin {"Unresolved", "Unknown"}
    /\ \A k \in 1..Len(t.elems) : is_resolved(t.elems[k])

\* FunctionRegistry::get_function: the place of the first function with the
\* name, 0 for None
get_function(functions, name) ==
    IF \E k \in 1..Len(functions) : functions[k].name = name
    THEN CHOOSE k \in 1..Len(functions) :
             /\ functions[k].name = name
             /\ \A m \in 1..(k - 1) : functions[m].name # name
    ELSE 0

\* FunctionRegistry::register: the functions after the call and the result
register_always_pushes(functions, func_meta) ==
    [functions |-> Append(functions, func_meta), result |-> "Ok"]
register(functions, func_meta) ==
    IF get_function(functions, func_meta.name) # 0
    THEN [functions |-> functions, result |-> "FunctionAlreadyExists"]
    ELSE [functions |-> Append(functions, func_meta), result |-> "Ok"]

\* FuncMeta::new
FuncMetaNew(name, input_args, output) ==
    /\ meta' = [result |-> IF (\E k \in 1..Len(input_args) : ~is_resolved(input_args[k]))
                              \/ ~is_resolved(output)
                           THEN "UnresolvedDataType" ELSE "Ok",
                name |-> name, input_args |-> input_args, output |-> output]
    /\ UNCHANGED <<registry, registered>>
    /\ UNCHANGED <<schedVars, workerVars, waiterVars, apiVars, histVars, termVars, vmVars, irVars, ctxVars, svmVars, rdVars>>

\* register is called with the FuncMeta that FuncMeta::new returned, which
\* is moved into the call
Register ==
    /\ meta.result = "Ok"
    /\ registry' = register(registry, meta).functions
    /\ registered' = [result |-> register(registry, meta).result, function |-> meta,
                      before |-> registry]
    /\ meta' = [result |-> "none", name |-> "", input_args |-> <<>>, output |-> 0]
    /\ UNCHANGED <<schedVars, workerVars, waiterVars, apiVars, histVars, termVars, vmVars, irVars, ctxVars, svmVars, rdVars>>

SpecReg ==
    Init /\ [][ \/ \E name \in RegisteredNames, output \in DataTypes.output,
                      input_args \in UNION {[1..n -> DataTypes.input] : n \in {0, MaxArgs}} :
                        FuncMetaNew(name, input_args, output)
                \/ Register ]_vars

\* ------------------------------------------------------- the stack VM
\* Op and Node: the tag and the number it carries (0 when it carries none)
Op(kind, arg) == [kind |-> kind, arg |-> arg]
Node(kind, value) == [kind |-> kind, value |-> value]

\* Bytecode.constants and Bytecode.instructions of tests::func_call: the
\* functions Add (at 0) and Mul (at 4), and Main (at 8)
svm_constants == <<1, 2, 3>>
func_call ==
    << Op("Copy", 2), Op("Copy", 2), Op("IntAdd", 0), Op("Return", 0),
       Op("Copy", 2), Op("Copy", 2), Op("IntMul", 0), Op("Return", 0),
       Op("Constant", 0), Op("Constant", 1), Op("Jump", 4),
       Op("Constant", 2), Op("Jump", 0), Op("Return", 0) >>
\* the instructions another bytecode may hold in the place of one of these
Ops ==
    {Op("NoOp", 0), Op("Return", 0), Op("IntAdd", 0)}
        \cup {Op("Constant", k) : k \in 0..Len(svm_constants)}
        \cup {Op("Jump", pos) : pos \in 0..(Len(func_call) + 1)}
        \cup {Op("Copy", offset) : offset \in 0..MaxStack}

\* the results of one iteration of the loop of VM::exec
Continue(ip, stk) ==
    [ip |-> ip, stack |-> stk, result |-> "running", value |-> Node("none", 0)]
ReturnErr(s)      == [s EXCEPT !.result = "Err"]
ReturnOk(s, node) == [s EXCEPT !.result = "Ok", !.value = node]
Pop(stk) == SubSeq(stk, 1, Len(stk) - 1)

\* Op::Return: the inner loop pops until a FuncPtr is the last entry
RECURSIVE unwind(_, _, _)
unwind(s, stk, return_value) ==
    IF stk = <<>> THEN ReturnOk(s, return_value)
    ELSE IF stk[Len(stk)].kind = "FuncPtr"
    THEN Continue(stk[Len(stk)].value, Append(Pop(stk), return_value))
    ELSE unwind(s, Pop(stk), return_value)
op_return(s) ==
    IF s.stack = <<>> THEN ReturnErr(s)
    ELSE unwind(s, Pop(s.stack), s.stack[Len(s.stack)])

\* Op::IntAdd, Op::IntMul: a and b are popped, then matched
op_int(s, kind) ==
    IF Len(s.stack) < 2 THEN ReturnErr(s)
    ELSE LET a == s.stack[Len(s.stack)]
             b == s.stack[Len(s.stack) - 1]
         IN  IF a.kind = "Int" /\ b.kind = "Int"
             THEN Continue(s.ip + 1, Append(Pop(Pop(s.stack)),
                                            Node("Int", IF kind = "IntAdd" THEN a.value + b.value
                                                        ELSE a.value * b.value)))
             ELSE ReturnErr(s)

\* Op::Jump
op_jump_pushes_ip(s, pos) ==
    IF pos >= Len(instructions) THEN ReturnErr(s)
    ELSE Continue(pos, Append(s.stack, Node("FuncPtr", s.ip)))
op_jump(s, pos) ==
    IF pos >= Len(instructions) THEN ReturnErr(s)
    ELSE Continue(pos, Append(s.stack, Node("FuncPtr", s.ip + 1)))

\* Op::Copy
op_copy_from_bottom(s, offset) ==
    LET copy_index == (Len(s.stack) - 1) - offset
    IN  IF s.stack = <<>> THEN ReturnErr(s)
        ELSE Continue(s.ip + 1,
                      Append(s.stack, s.stack[IF copy_index < 0 THEN 1 ELSE copy_index + 1]))
op_copy(s, offset) ==
    LET copy_index == (Len(s.stack) - 1) - offset
    IN  IF copy_index < 0 THEN ReturnErr(s)
        ELSE Continue(s.ip + 1, Append(s.stack, s.stack[copy_index + 1]))

\* one iteration of the loop of VM::exec; ip counts from 0
exec_step(s) ==
    IF s.ip >= Len(instructions) THEN ReturnErr(s)
    ELSE LET op == instructions[s.ip + 1]
         IN  CASE op.kind = "NoOp" -> Continue(s.ip + 1, s.stack)
               [] op.kind = "Constant" ->
                      IF op.arg >= Len(svm_constants) THEN [s EXCEPT !.result = "panic"]
                      ELSE Continue(s.ip + 1,
                                    Append(s.stack, Node("Int", svm_constants[op.arg + 1])))
               [] op.kind = "Return" -> op_return(s)
               [] op.kind = "IntAdd" -> op_int(s, "IntAdd")
               [] op.kind = "IntMul" -> op_int(s, "IntMul")
               [] op.kind = "Jump" -> op_jump(s, op.arg)
               [] OTHER -> op_copy(s, op.arg)

\* Bytecode: the instructions of func_call, or those with one of them
\* replaced
LoadBytecode ==
    /\ instructions = <<>>
    /\ \/ instructions' = func_call
       \/ \E k \in 1..Len(func_call), op \in Ops :
              instructions' = [func_call EXCEPT ![k] = op]
    /\ UNCHANGED <<svm, svm_prev>>
    /\ UNCHANGED <<schedVars, workerVars, waiterVars, apiVars, histVars, termVars, vmVars, irVars, ctxVars, regVars, rdVars>>

\* VM::exec(8) is called: Main
Exec ==
    /\ instructions # <<>>
    /\ svm.result = "none"
    /\ svm' = Continue(8, <<>>)
    /\ UNCHANGED <<instructions, svm_prev>>
    /\ UNCHANGED <<schedVars, workerVars, waiterVars, apiVars, histVars, termVars, vmVars, irVars, ctxVars, regVars, rdVars>>

\* the loop of VM::exec runs once more
ExecStep ==
    /\ svm.result = "running"
    /\ Len(svm.stack) < MaxStack
    /\ svm' = exec_step(svm)
    /\ svm_prev' = [ran |-> TRUE, ip |-> svm.ip, stack |-> svm.stack]
    /\ UNCHANGED instructions
    /\ UNCHANGED <<schedVars, workerVars, waiterVars, apiVars, histVars, termVars, vmVars, irVars, ctxVars, regVars, rdVars>>

SpecSVM == Init /\ [][LoadBytecode \/ Exec \/ ExecStep]_vars

\* --------------------------------------------------- the bytecode reader
\* a byte is a number in 0..255; the first four bytes of a bytecode
MAGIC_NUMBER == <<86, 37, 20, 175>>

\* write_u32, for the numbers below 256 that the bytecodes here hold
write_u32(n) == <<0, 0, 0, n>>
\* Op::as_bytes and Constant::as_bytes: the tag, then the payload
as_bytes(item) ==
    CASE item.kind = "NoOp"     -> <<0>>
      [] item.kind = "Constant" -> <<1>> \o write_u32(item.arg)
      [] item.kind = "Return"   -> <<2>>
      [] item.kind = "IntAdd"   -> <<3>>
      [] item.kind = "IntMul"   -> <<5>>
      [] item.kind = "Jump"     -> <<9>> \o write_u32(item.arg)
      [] item.kind = "Copy"     -> <<10>> \o write_u32(item.arg)
      [] item.kind = "Int"      -> <<1, 0, 0, 0, 0>> \o write_u32(item.value)
      [] item.kind = "String"   -> <<3>> \o write_u32(1) \o <<item.value>>
      [] OTHER                  -> <<4, item.value>>

\* the bytecodes that are serialized: constants and instructions
Bytecodes ==
    { [constants |-> <<>>, instructions |-> <<>>],
      [constants |-> <<>>, instructions |-> <<Op("Copy", 1), Op("Jump", 0), Op("IntAdd", 0)>>],
      [constants |-> <<Node("Int", 23)>>, instructions |-> <<Op("Constant", 0), Op("Return", 0)>>],
      [constants |-> <<Node("Bool", 1), Node("String", 97)>>, instructions |-> <<Op("NoOp", 0)>>] }
\* the bytes a damaged buffer holds in the place of a byte
Damaged == {0, 11, 255}

RECURSIVE Concat(_, _)
Concat(items, n) == IF n = 0 THEN <<>> ELSE Concat(items, n - 1) \o as_bytes(items[n])
Serialize(b) ==
    MAGIC_NUMBER \o write_u32(Len(b.constants)) \o write_u32(Len(b.instructions))
        \o Concat(b.constants, Len(b.constants))
        \o Concat(b.instructions, Len(b.instructions))
\* the indices (from 0) of the tag bytes of the constants and of the
\* instructions in the serialized bytecode
ConstTags(b) == {12 + Len(Concat(b.constants, n - 1)) : n \in 1..Len(b.constants)}
OpTags(b) ==
    {12 + Len(Concat(b.constants, Len(b.constants))) + Len(Concat(b.instructions, n - 1)) :
        n \in 1..Len(b.instructions)}

\* read_u32: the four bytes, or the error; index counts from 0
read_u32(buf, index) ==
    IF index + 3 >= Len(buf) THEN [ok |-> FALSE, n |-> <<>>]
    ELSE [ok |-> TRUE, n |-> SubSeq(buf, index + 1, index + 4)]
\* `as usize` of a u32 that counts or measures something in the buffer:
\* every number above the buffer's length acts like 256, the buffers are
\* shorter
as_usize(n) == IF n[1] = 0 /\ n[2] = 0 /\ n[3] = 0 THEN n[4] ELSE 256

\* the results of Constant::from_bytes and Op::from_bytes
Read(item, size) == [result |-> "Ok", item |-> item, size |-> size]
Failed(result) == [result |-> result, item |-> <<>>, size |-> 0]

\* Constant::from_bytes; `&bytes[index]` panics past the end of the slice
Constant_from_bytes(buf, index) ==
    IF index >= Len(buf) THEN Failed("panic")
    ELSE CASE buf[index + 1] \in {1, 2} ->
                  IF index + 1 + 7 >= Len(buf) THEN Failed("InvalidBytecodeError")
                  ELSE Read(SubSeq(buf, index + 1, index + 9), 9)
           [] buf[index + 1] = 3 ->
                  LET length == as_usize(read_u32(buf, index + 1).n)
                  IN  IF ~read_u32(buf, index + 1).ok THEN Failed("InvalidBytecodeError")
                      ELSE IF index + 1 + 3 + length >= Len(buf)
                      THEN Failed("InvalidBytecodeError")
                      ELSE IF \E k \in (index + 6)..(index + 5 + length) : buf[k] >= 128
                      THEN Failed("InvalidBytecodeError")
                      ELSE Read(SubSeq(buf, index + 1, index + 5 + length), length + 5)
           [] buf[index + 1] = 4 ->
                  IF index + 1 >= Len(buf) THEN Failed("InvalidBytecodeError")
                  ELSE Read(SubSeq(buf, index + 1, index + 2), 2)
           [] OTHER -> Failed("UnknownConstError")

\* Op::from_bytes
Op_from_bytes(buf, index) ==
    IF index >= Len(buf) THEN Failed("panic")
    ELSE CASE buf[index + 1] \in {0, 2, 3, 4, 5, 6, 7, 8} -> Read(<<buf[index + 1]>>, 1)
           [] buf[index + 1] \in {1, 9, 10} ->
                  IF ~read_u32(buf, index + 1).ok THEN Failed("InvalidBytecodeError")
                  ELSE Read(SubSeq(buf, index + 1, index + 5), 5)
           [] OTHER -> Failed("UnknownOpError")

\* the two loops of Bytecode::from_bytes: count more items are read at index
RECURSIVE read_items(_, _, _, _)
read_items(buf, index, count, constant) ==
    IF count = 0 THEN [result |-> "Ok", items |-> <<>>, index |-> index]
    ELSE LET this == IF constant THEN Constant_from_bytes(buf, index)
                     ELSE Op_from_bytes(buf, index)
             rest == read_items(buf, index + this.size, count - 1, constant)
         IN  IF this.result # "Ok"
             THEN [result |-> this.result, items |-> <<>>, index |-> index]
             ELSE [rest EXCEPT !.items = <<this.item>> \o @]

\* Bytecode::from_bytes with read_header
from_bytes(buf) ==
    LET failed == [result |-> "InvalidBytecodeError", constants |-> <<>>, instructions |-> <<>>]
        cons == read_items(buf, 12, as_usize(read_u32(buf, 4).n), TRUE)
        ops  == read_items(buf, cons.index, as_usize(read_u32(buf, 8).n), FALSE)
    IN  IF ~read_u32(buf, 0).ok THEN failed
        ELSE IF read_u32(buf, 0).n # MAGIC_NUMBER THEN failed
        ELSE IF ~read_u32(buf, 4).ok \/ ~read_u32(buf, 8).ok THEN failed
        ELSE IF cons.result # "Ok" THEN [failed EXCEPT !.result = cons.result]
        ELSE IF ops.result # "Ok" THEN [failed EXCEPT !.result = ops.result]
        ELSE [result |-> "Ok", constants |-> cons.items, instructions |-> ops.items]

\* a buffer arrives as it was serialized
ReceiveIntact(b) ==
    /\ damage = "unset"
    /\ bytes' = Serialize(b)
    /\ damage' = "none"
    /\ UNCHANGED loaded
    /\ UNCHANGED <<schedVars, workerVars, waiterVars, apiVars, histVars, termVars, vmVars, irVars, ctxVars, regVars, svmVars>>

\* a buffer arrives cut off after its first n bytes
ReceiveTruncated(b, n) ==
    /\ damage = "unset"
    /\ n < Len(Serialize(b))
    /\ bytes' = SubSeq(Serialize(b), 1, n)
    /\ damage' = "truncated"
    /\ UNCHANGED loaded
    /\ UNCHANGED <<schedVars, workerVars, waiterVars, apiVars, histVars, termVars, vmVars, irVars, ctxVars, regVars, svmVars>>

\* a buffer arrives with the byte at index k replaced
ReceiveDamaged(b, k, byte) ==
    /\ damage = "unset"
    /\ k < Len(Serialize(b))
    /\ Serialize(b)[k + 1] # byte
    /\ bytes' = [Serialize(b) EXCEPT ![k + 1] = byte]
    /\ damage' = IF k < 4 THEN "magic"
                 ELSE IF k \in ConstTags(b) /\ byte \notin 1..4 THEN "constant tag"
                 ELSE IF k \in OpTags(b) /\ byte \notin 0..10 THEN "opcode tag"
                 ELSE "other"
    /\ UNCHANGED loaded
    /\ UNCHANGED <<schedVars, workerVars, waiterVars, apiVars, histVars, termVars, vmVars, irVars, ctxVars, regVars, svmVars>>

\* Bytecode::from_bytes is called on the buffer
FromBytes ==
    /\ damage # "unset"
    /\ loaded.result = "none"
    /\ loaded' = from_bytes(bytes)
    /\ UNCHANGED <<bytes, damage>>
    /\ UNCHANGED <<schedVars, workerVars, waiterVars, apiVars, histVars, termVars, vmVars, irVars, ctxVars, regVars, svmVars>>

SpecRead ==
    Init /\ [][ \/ \E b \in Bytecodes : ReceiveIntact(b)
                \/ \E b \in Bytecodes, n \in 0..MaxBytes : ReceiveTruncated(b, n)
                \/ \E b \in Bytecodes, k \in 0..MaxBytes, byte \in Damaged :
                       ReceiveDamaged(b, k, byte)
                \/ FromBytes ]_vars

\* ------------------------------------------- claims about the compiler
\* the statements of the loaded functions, as (function, statement) places
Statements ==
    {p \in (1..MaxFunctions) \X (1..MaxAssignments * (MaxArgs + 1)) :
        /\ p[1] <= Len(context.functions)
        /\ p[2] <= Len(context.functions[p[1]].statements)}
Statement(p) == context.functions[p[1]].statements[p[2]]
\* the last component of a path
Name(path) == path[Len(path)]

\* C23: once compile_context has returned Ok, no call is left Unresolved
\* whose name is that of a function of the context that is accessible from
\* everywhere (accessability 0), and a context that still holds an
\* Unresolved call is not assembled.
C23_CallsResolved ==
    /\ stage \in {"Ok", "assembled", "panic"} =>
           \A p \in Statements :
               Statement(p).function.kind = "Unresolved" =>
                   ~\E g \in 1..Len(context.functions) :
                       /\ Name(context.functions[g].path) = Statement(p).function.name
                       /\ context.functions[g].accessability = 0
    /\ stage = "assembled" =>
           \A p \in Statements : Statement(p).function.kind # "Unresolved"

\* the statements that are constants, and those that call an external
ConstantStatements ==
    {p \in Statements : Statement(p).function.kind \in {"IntConstant", "BoolConstant"}}
ExternalStatements == {p \in Statements : Statement(p).function.kind = "External"}
\* the constant value of a constant statement
ConstantOf(p) ==
    Data(IF Statement(p).function.kind = "IntConstant" THEN "Int" ELSE "Bool",
         Statement(p).function.value)
\* the operation assembled for a statement
OperationOf(p) == bytecode.internal_functions[p[1]][p[2]]
\* no value is held twice
NoRepeat(v) == \A i \in 1..Len(v), j \in 1..Len(v) : v[i] = v[j] => i = j

C25_ExternalInterning ==
    stage = "assembled" =>
        /\ NoRepeat(bytecode.external_functions)
        /\ Range(bytecode.external_functions) =
               {Statement(p).function.name : p \in ExternalStatements}
        /\ \A p \in ExternalStatements :
               /\ OperationOf(p).function_call.kind = "External"
               /\ OperationOf(p).function_call.index < Len(bytecode.external_functions)
               /\ bytecode.external_functions[OperationOf(p).function_call.index + 1] =
                      Statement(p).function.name
\* a bytecode was assembled from two functions that both call Add, one of
\* them after calling Mul
C25_Witness ==
    /\ stage = "assembled"
    /\ bytecode.external_functions = <<"Mul", "Add">>
    /\ \E p \in ExternalStatements, q \in ExternalStatements :
           p[1] # q[1] /\ Statement(p).function.name = Statement(q).function.name

\* the accessability of the element that encloses element e: 0 is what
\* compile_context passes to the modules of the context
ParentAccessability(e) ==
    IF elements[e].parent = 0 THEN 0 ELSE elements[elements[e].parent].accessability
\* element e and every element around it is exported
RECURSIVE ExportedChain(_)
ExportedChain(e) ==
    e = 0 \/ (elements[e].export /\ ExportedChain(elements[e].parent))

\* C26: every loaded module, function and struct has its depth as
\* accessability when it is not exported and the accessability of its
\* parent when it is; so its accessability is at least that of its parent,
\* and it is 0 when the element and everything around it is exported.
C26_Accessibility ==
    \A e \in 1..Len(elements) :
        /\ ~elements[e].export => elements[e].accessability = elements[e].depth
        /\ elements[e].export => elements[e].accessability = ParentAccessability(e)
        /\ elements[e].accessability >= ParentAccessability(e)
        /\ ExportedChain(e) => elements[e].accessability = 0
\* what holds: the rule of the accessability, for modules and functions
AccessibilityOfModulesAndFunctions ==
    \A e \in 1..Len(elements) :
        elements[e].kind # "struct" =>
            /\ ~elements[e].export => elements[e].accessability = elements[e].depth
            /\ elements[e].export => elements[e].accessability = ParentAccessability(e)
\* what holds: the order and the exported chain, for every element
AccessibilityMonotone ==
    \A e \in 1..Len(elements) :
        /\ elements[e].accessability >= ParentAccessability(e)
        /\ ExportedChain(e) => elements[e].accessability = 0

\* the type has a leaf that is Unresolved or Unknown
RECURSIVE HasUnresolvedLeaf(_)
HasUnresolvedLeaf(t) ==
    IF t.elems = <<>> THEN t.kind \in {"Unresolved", "Unknown"}
    ELSE \E k \in 1..Len(t.elems) : HasUnresolvedLeaf(t.elems[k])

\* C27: a register call whose FuncMeta has the name of a function already in
\* the registry returned FunctionAlreadyExists and left the functions, and
\* so what the name looks up, as they were; a FuncMeta::new call with an
\* input or output type that has an unresolved leaf returned
\* UnresolvedDataType.
C27_RegistryErrors ==
    /\ (registered.result # "none"
          /\ \E k \in 1..Len(registered.before) :
                 registered.before[k].name = registered.function.name)
           => /\ registered.result = "FunctionAlreadyExists"
              /\ registry = registered.before
              /\ registry[get_function(registry, registered.function.name)] =
                     registered.before[get_function(registered.before,
                                                    registered.function.name)]
    /\ (meta.result # "none"
          /\ (HasUnresolvedLeaf(meta.output)
               \/ \E k \in 1..Len(meta.input_args) : HasUnresolvedLeaf(meta.input_args[k])))
           => meta.result = "UnresolvedDataType"
\* a second function named like a registered one, with other types, was
\* passed to register, and then FuncMeta::new got a nested unresolved type
\* among resolved ones
C27_Witness ==
    /\ registered.result = "FunctionAlreadyExists"
    /\ Len(registry) = 2
    /\ registry[get_function(registry, registered.function.name)].output
           # registered.function.output
    /\ meta.result = "UnresolvedDataType"
    /\ Len(meta.input_args) = 2
    /\ is_resolved(meta.output) /\ is_resolved(meta.input_args[1])
    /\ meta.input_args[2].kind = "List"

\* ------------------------------------------ claims about the stack VM
\* the loop of VM::exec has run, and the instruction it ran
Stepped == svm_prev.ran /\ svm_prev.ip < Len(instructions)
Ran == instructions[svm_prev.ip + 1]
\* the places of the return addresses under the top of the stack it ran on
ReturnAddresses ==
    {k \in 1..(Len(svm_prev.stack) - 1) : svm_prev.stack[k].kind = "FuncPtr"}
Nearest == CHOOSE k \in ReturnAddresses : \A m \in ReturnAddresses : m <= k

\* C28: a Jump(pos) inside the program pushes the return address ip + 1
\* and continues at pos; a Return on a stack with a value pops it, drops the
\* entries down to and including the nearest return address and continues
\* there with the value pushed, or returns the value when the stack holds no
\* return address; exec of Main of func_call returns Int 5.
C28_JumpAndReturn ==
    /\ (Stepped /\ Ran.kind = "Jump" /\ Ran.arg < Len(instructions)) =>
           /\ svm.result = "running"
           /\ svm.ip = Ran.arg
           /\ svm.stack = Append(svm_prev.stack, Node("FuncPtr", svm_prev.ip + 1))
    /\ (Stepped /\ Ran.kind = "Return" /\ svm_prev.stack # <<>>) =>
           IF ReturnAddresses # {}
           THEN /\ svm.result = "running"
                /\ svm.ip = svm_prev.stack[Nearest].value
                /\ svm.stack = Append(SubSeq(svm_prev.stack, 1, Nearest - 1),
                                      svm_prev.stack[Len(svm_prev.stack)])
           ELSE /\ svm.result = "Ok"
                /\ svm.value = svm_prev.stack[Len(svm_prev.stack)]
    /\ (instructions = func_call /\ svm.result \notin {"none", "running"}) =>
           (svm.result = "Ok" /\ svm.value = Node("Int", 5))
\* Main of func_call has returned: its last Return found the two constants,
\* the two results and no return address on the stack
C28_Witness ==
    /\ instructions = func_call
    /\ svm.result = "Ok"
    /\ Ran.kind = "Return"
    /\ Len(svm_prev.stack) = 5

\* C29: a Jump whose target is at or past the end of the program, and a
\* Copy whose offset is larger than the place of the top of the stack, end
\* exec with an error, with the stack and the instruction pointer as they
\* were.
C29_OutOfRange ==
    (Stepped /\ \/ Ran.kind = "Jump" /\ Ran.arg >= Len(instructions)
                \/ Ran.kind = "Copy" /\ Ran.arg + 1 > Len(svm_prev.stack))
        => /\ svm.result = "Err"
           /\ svm.stack = svm_prev.stack
           /\ svm.ip = svm_prev.ip
\* a Copy that asked for the entry just below the bottom of a stack of two
C29_Witness ==
    /\ Stepped
    /\ Ran = Op("Copy", 2)
    /\ Len(svm_prev.stack) = 2
    /\ svm.result = "Err"
\* a Jump to the place just past the last instruction
C29_WitnessJump ==
    /\ Stepped
    /\ Ran = Op("Jump", Len(instructions))
    /\ svm.result = "Err"

\* ----------------------------------- claims about the bytecode reader
\* C30: from_bytes returns an error for a buffer with a wrong magic, for a
\* buffer cut off before all declared constants and operations (also when
\* cut off exactly where the next tag is expected), and for a buffer with an
\* unknown opcode tag or an unknown constant tag.
C30_CorruptionIsAnError ==
    (loaded.result # "none"
      /\ damage \in {"magic", "truncated", "opcode tag", "constant tag"})
        => loaded.result \in {"InvalidBytecodeError", "UnknownOpError", "UnknownConstError"}
\* what holds: from_bytes panics only on a buffer that ends where it looks
\* for a tag, cut off or with a count that declares more than it holds
PanicOnlyPastTheEnd ==
    loaded.result = "panic" => damage \in {"truncated", "other"}

\* ------------------------------------------ claims about the job lifecycle
\* where a job is
Phase(j) ==
    CASE is_done(State, j)        -> "FINISHED"
      [] InFlight(j)              -> "IN_FLIGHT"
      [] is_hibernating(State, j) -> "HIBERNATING"
      [] Contains(queue, j)       -> "READY"
      [] is_sleeping(State, j)    -> "SLEEPING"
      [] OTHER                    -> "CREATED"
\* the steps of the lifecycle; a job whose dependencies are all finished when
\* it is created is READY without having slept, and a hibernate call whose
\* children are all finished is the step IN_FLIGHT -> FINISHED
Lifecycle ==
    { <<"CREATED", "SLEEPING">>, <<"CREATED", "READY">>, <<"SLEEPING", "READY">>,
      <<"READY", "IN_FLIGHT">>, <<"IN_FLIGHT", "FINISHED">>,
      <<"IN_FLIGHT", "HIBERNATING">>, <<"HIBERNATING", "FINISHED">> }

\* C31: every job moves along CREATED -> SLEEPING -> READY -> IN_FLIGHT ->
\* (FINISHED | HIBERNATING -> FINISHED): its handle is sent to the ready queue
\* at most once, and once finished it is in neither the sleeping list, the
\* ready queue, the hibernating list nor a worker's hands.
C31_Lifecycle ==
    /\ [](\A j \in Issued :
            /\ Count(pushed, j) <= 1
            /\ Phase(j) # "CREATED"
            /\ WasFinished(j) =>
                   /\ Phase(j) = "FINISHED"
                   /\ ~is_sleeping(State, j) /\ ~Contains(queue, j)
                   /\ ~is_hibernating(State, j) /\ ~InFlight(j))
    /\ [][\A j \in JobIds :
            \/ Phase(j)' = Phase(j)
            \/ <<Phase(j), Phase(j)'>> \in Lifecycle]_vars
\* a job has slept, was released, was run, has hibernated and is finished
C31_Witness ==
    \E j \in Issued : j \in slept /\ j \in parked /\ WasFinished(j) /\ Count(pushed, j) = 1

\* the step finishes the last unfinished child of the hibernating job h
LastChildFinishes(h) ==
    /\ is_hibernating(State, h)
    /\ ~AllFinished(hib_deps[h])
    /\ AllFinished(hib_deps[h])'
\* the sleeping jobs that wait for h and for nothing else unfinished after the step
DependentsLeft(h) ==
    {j \in Issued : /\ is_sleeping(State, j) /\ Contains(deps_of[j], h)
                    /\ \A i \in 1..Len(deps_of[j]) :
                           deps_of[j][i] # h => WasFinished(deps_of[j][i])'}
\* h is finished by the step: gone from the hibernating list, reported by
\* is_done, and its waiter has its message
FinishedInStep(h) ==
    /\ ~is_hibernating(State, h)'
    /\ is_done(State, h)' /\ WasFinished(h)'
    /\ push_notifications[h] # 0 =>
           /\ chan'[push_notifications[h]] = "signalled"
           /\ push_notifications'[h] = 0

\* C32: the finish_job call that finishes the last outstanding child of a
\* hibernating job finishes that job too: it leaves the hibernating list,
\* is_done reports it, its sleeping dependents with no other outstanding
\* dependency are queued and its waiter is notified, also along a chain of
\* hibernating jobs.
C32_CascadeFinish ==
    [][\A h \in Issued : LastChildFinishes(h) =>
          /\ FinishedInStep(h)
          /\ \A j \in DependentsLeft(h) :
                 ~is_sleeping(State, j)' /\ Contains(queue', j)]_vars
\* what holds: the same for the dependents that name h once
CascadeFinishDistinct ==
    [][\A h \in Issued : LastChildFinishes(h) =>
          /\ FinishedInStep(h)
          /\ \A j \in DependentsLeft(h) :
                 Count(deps_of[j], h) = 1 =>
                     ~is_sleeping(State, j)' /\ Contains(queue', j)]_vars
\* a chain of two hibernating jobs was finished by one call, and a waiter of
\* the outer one was notified
CascadeChain ==
    \E a \in Issued, b \in Issued :
        /\ a \in parked /\ b \in parked /\ Contains(hib_deps[a], b)
        /\ WasFinished(a) /\ notified[a] = 1

\* the step is worker w's call of hibernate with the children its closure returned
HibernateCall(w) == pc[w] = "running" /\ children[w] # <<>> /\ pc'[w] = "idle"
\* no entry of the hibernating list names a finished job
NoFinishedChild ==
    \A i \in 1..Len(hibernating_jobs) :
        \A k \in 1..Len(hibernating_jobs[i].dependencies) :
            ~WasFinished(hibernating_jobs[i].dependencies[k])

\* C33: a hibernate call whose children have all finished already (other
\* workers ran them first) finishes the job in that call and releases its
\* dependents and its waiter; no job is left hibernating on a finished child.
C33_HibernateOnFinished ==
    /\ []NoFinishedChild
    /\ [][\A w \in Workers, h \in Issued :
              (HibernateCall(w) /\ h = handle[w] /\ AllFinished(children[w])) =>
              /\ FinishedInStep(h)
              /\ \A j \in DependentsLeft(h) :
                     ~is_sleeping(State, j)' /\ Contains(queue', j)]_vars
\* what holds: the same for the dependents that name the job once
HibernateOnFinishedDistinct ==
    /\ []NoFinishedChild
    /\ [][\A w \in Workers, h \in Issued :
              (HibernateCall(w) /\ h = handle[w] /\ AllFinished(children[w])) =>
              /\ FinishedInStep(h)
              /\ \A j \in DependentsLeft(h) :
                     Count(deps_of[j], h) = 1 =>
                         ~is_sleeping(State, j)' /\ Contains(queue', j)]_vars
\* a job whose only child had finished called hibernate, was finished by the
\* call and notified its waiter
HibernatedOnFinished ==
    \E h \in Issued :
        hib_deps[h] # <<>> /\ h \notin parked /\ WasFinished(h) /\ notified[h] = 1

\* ------------------------------------- claims about variable references
\* the number of IR nodes an expression adds to the statement list: one for
\* a literal, none for a variable, one for a call after those of its arguments
RECURSIVE NodeCount(_)
RECURSIVE NodeCountUpto(_, _)
NodeCountUpto(exprs, n) ==
    IF n = 0 THEN 0 ELSE NodeCountUpto(exprs, n - 1) + NodeCount(exprs[n])
NodeCount(expr) ==
    CASE expr.kind = "Variable"     -> 0
      [] expr.kind = "FunctionCall" ->
             1 + NodeCountUpto(expr.arguments, Len(expr.arguments))
      [] OTHER                      -> 1
\* the index, from 0, of the node that computes the value of assignment k of
\* the function being compiled: the last node its expression adds
ValueNode(k) ==
    NodeCountUpto([m \in 1..k |-> emission_order(ast)[m].expression], k) - 1
\* assignment w is the one assignment to the name, and a node computes it
Computes(w, name) ==
    /\ ast[w].variable = name
    /\ ast[w].expression.kind # "Variable"
    /\ \A v \in 1..Len(ast) : ast[v].variable = name => v = w
\* argument k of the call that is the right-hand side of assignment r is a
\* variable reference
Reference(r, k) ==
    /\ ast[r].expression.kind = "FunctionCall"
    /\ k \in 1..Len(ast[r].expression.arguments)
    /\ ast[r].expression.arguments[k].kind = "Variable"
\* the input the assembled function has for that reference
Resolved(r, k) == bc[ValueNode(r) + 1].inputs[k]

\* C34: a variable reference in the expression of an assignment is resolved
\* to Param(p) when parameter p has the name, and otherwise to Hidden(i) with
\* i the index in the statement list of the node that computes the value of
\* the assignment to that name.
C34_VariableResolution ==
    ir = "Ok" =>
        \A r \in 1..Len(ast), k \in 1..MaxArgs : Reference(r, k) =>
            LET name == ast[r].expression.arguments[k].name
            IN  IF Position(ParamNames, name) # 0
                THEN Resolved(r, k) = Param(Position(ParamNames, name) - 1)
                ELSE \A w \in 1..Len(ast) : Computes(w, name) =>
                         Resolved(r, k) = Hidden(ValueNode(w))
\* what holds: the references to parameters, and Hidden(i) with i the place
\* of the assignment in the sorted copy of the assignments
ResolvedToSortedPlace ==
    ir = "Ok" =>
        \A r \in 1..Len(ast), k \in 1..MaxArgs : Reference(r, k) =>
            LET name == ast[r].expression.arguments[k].name
            IN  IF Position(ParamNames, name) # 0
                THEN Resolved(r, k) = Param(Position(ParamNames, name) - 1)
                ELSE Resolved(r, k) = Hidden(hidden_pos(sort_by(ast), name))
\* a function was loaded in which a call reads a parameter and a variable
\* that a call computes
ReferenceLoaded ==
    /\ ir = "Ok"
    /\ \E r \in 1..Len(ast), k \in 1..MaxArgs, w \in 1..Len(ast) :
           Reference(r, k) /\ Computes(w, ast[r].expression.arguments[k].name)
    /\ \E r \in 1..Len(ast), k \in 1..MaxArgs :
           Reference(r, k) /\ ast[r].expression.arguments[k].name = "a"

\* ------------------------------------- claims about repeated dependencies
\* C35: a job is in the sleeping list or in the hibernating list only while
\* one of the jobs named in the dependency list it was given is unfinished,
\* also when the list names a job more than once.
C35_ReleasedWhenAllFinished ==
    /\ \A i \in 1..Len(sleeping_jobs) :
           \E d \in Range(deps_of[sleeping_jobs[i].handle]) : ~WasFinished(d)
    /\ \A i \in 1..Len(hibernating_jobs) :
           \E d \in Range(hib_deps[hibernating_jobs[i].handle]) : ~WasFinished(d)
\* what holds: the same for the jobs whose list names no job twice
ReleasedWhenAllFinishedDistinct ==
    /\ \A i \in 1..Len(sleeping_jobs) :
           NoRepeat(deps_of[sleeping_jobs[i].handle]) =>
               \E d \in Range(deps_of[sleeping_jobs[i].handle]) : ~WasFinished(d)
    /\ \A i \in 1..Len(hibernating_jobs) :
           NoRepeat(hib_deps[hibernating_jobs[i].handle]) =>
               \E d \in Range(hib_deps[hibernating_jobs[i].handle]) : ~WasFinished(d)

\* ---------------------------------------------- claims about two waiters
\* C36: when two threads wait for the same unfinished job, the second
\* wait_for_job leaves the first one's channel intact: no waiter's recv()
\* finds its Sender dropped, and a waiter of a finished job is not blocked
\* without a message.
C36_BothWaitersReturn ==
    \A t \in Waiters :
        /\ wstate[t] # "panicked"
        /\ wstate[t] = "blocked" => chan[t] # "dropped"
        /\ (wstate[t] = "blocked" /\ WasFinished(wjob[t])) => chan[t] = "signalled"
\* what holds: the same for a waiter that no later waiter of the same job follows
LastWaiterReturns ==
    \A t \in Waiters :
        (wstate[t] = "blocked" /\ WasFinished(wjob[t]) /\ chan[t] # "dropped")
            => chan[t] = "signalled"

\* ------------------------------------------- claims about the VM's progress
\* C37: with one worker and a fair scheduler every call of execute returns:
\* the thread that entered execute leaves it with a value.
C37_ExecuteReturns ==
    (exec.pc = "started") ~> (exec.pc = "idle")
\* what holds: the same for the functions in which no operation reads one
\* job node twice and whose last operation is no constant
ExecuteReturnsPlain ==
    (exec.pc = "started" /\ exec.func \in {0, 1, 2}) ~> (exec.pc = "idle")

\* the last operation of function f is a Constant operation
EndsInConstant(f) ==
    get_operations(f)[Len(get_operations(f))].function_call.kind = "Constant"

\* C38: the expansion of an internal node whose function ends in a Constant
\* operation does not fail, and the node gets the constant's value: the worker
\* that expands it does not panic, and once its job is finished the node
\* holds the constant.
C38_FinalConstant ==
    /\ \A w \in Workers :
           (handle[w] # 0 /\ Closure(w).kind = "expand" /\ EndsInConstant(Closure(w).func))
               => pc[w] # "panicked"
    /\ \A j \in VmJobs :
           (closures[j].kind = "expand" /\ EndsInConstant(closures[j].func) /\ WasFinished(j))
               => LET ops == get_operations(closures[j].func)
                  IN  nodes[closures[j].node].data =
                          Some(get_constants[ops[Len(ops)].function_call.index + 1])
\* what holds: the job of such a node is never finished, and no call of
\* execute on such a function returns
FinalConstantNeverFinished ==
    /\ \A j \in VmJobs :
           (closures[j].kind = "expand" /\ EndsInConstant(closures[j].func)) => ~WasFinished(j)
    /\ \A i \in 1..Len(results) : ~EndsInConstant(results[i].func)

====
